---- MODULE Spec2Model ----
(***************************************************************************)
(* FSST (axiomhq/fsst): symbol table, trainer, encoder and decoder.        *)
(*                                                                         *)
(* Representation notes.                                                   *)
(*  - A uint64 symbol value is the tuple of its 8 little-endian bytes.     *)
(*  - The packed icl word [length:4][code:12][ignoredBits:16] is kept as   *)
(*    its three bit fields; comparing two icl words is comparing the       *)
(*    fields lexicographically (length, code, ignoredBits).                *)
(*  - shortCodes (65536 entries) is kept as the entries written one by one *)
(*    (field shortCodes) over the last bulk fill (field shortBase, indexed *)
(*    by the low byte of the key); hashTab (2048 entries) is kept as its   *)
(*    occupied slots, every other slot holding the free marker.            *)
(***************************************************************************)
EXTENDS Integers, Sequences, FiniteSets, TLC

(***************************************************************************)
(* Program constants (src/symbol.go, src/table.go, src/train.go)           *)
(***************************************************************************)
fsstLenBits == 12
fsstCodeBase == 256
fsstCodeMax == 512
fsstCodeMask == 511
fsstHashTabSize == 2048
fsstShift == 15
fsstEscapeCode == 255
fsstMaxSymbols == 255
fsstChunkSize == 511
fsstSampleMask == 127
fsstChunkPadding == 9
fsstOutputPadding == 7
fsstSampleTarget == 16384
singleByteBoost == 8
minCountNumerator == 5
minCountDenominator == 128
\* fsstHashPrime = 2971215073 = 0xB11924E1, as two 16-bit halves
fsstHashPrimeHi == 45337
fsstHashPrimeLo == 9441
\* fsstVersion = 20190218 = 0x0134140A, as its four little-endian bytes
fsstVersionBytes == <<10, 20, 52, 1>>

(***************************************************************************)
(* Bit and byte helpers                                                    *)
(***************************************************************************)
Min(a, b) == IF a < b THEN a ELSE b
Max(a, b) == IF a > b THEN a ELSE b

\* bit k of a, k a power of two
Bit(a, k) == (a \div k) % 2

\* a ^ b and a | b, for 0 <= a, b < 2^16
BitXor(a, b) ==
    LET X(k) == k * ((Bit(a, k) + Bit(b, k)) % 2)
    IN  X(1) + X(2) + X(4) + X(8) + X(16) + X(32) + X(64) + X(128) + X(256) + X(512)
        + X(1024) + X(2048) + X(4096) + X(8192) + X(16384) + X(32768)

BitOr(a, b) ==
    LET X(k) == k * Max(Bit(a, k), Bit(b, k))
    IN  X(1) + X(2) + X(4) + X(8) + X(16) + X(32) + X(64) + X(128) + X(256) + X(512)
        + X(1024) + X(2048) + X(4096) + X(8192) + X(16384) + X(32768)

ZeroVal == <<0, 0, 0, 0, 0, 0, 0, 0>>

\* a function as an explicit table of its values
Explicit(f) == f @@ <<>>

\* TRUE, once v has been evaluated (an operator argument is otherwise
\* evaluated where it is first used)
Forced(v) == {v} # {}

\* body(v), v being evaluated once, before body
Bound(v, body(_)) == CHOOSE r \in {body(x) : x \in {v}} : TRUE

\* for i := lo; i <= hi; i++ { s = body(s, i) }, the range split in eight
\* parts that are run one after the other
RECURSIVE For(_, _, _, _)
For(body(_, _), s, lo, hi) ==
    IF lo > hi THEN s
    ELSE IF lo = hi THEN body(s, lo)
    ELSE LET m == ((hi - lo) \div 8) + 1
             s1 == For(body, s, lo, Min(hi, lo + m - 1))
             s2 == For(body, s1, lo + m, Min(hi, lo + 2 * m - 1))
             s3 == For(body, s2, lo + 2 * m, Min(hi, lo + 3 * m - 1))
             s4 == For(body, s3, lo + 3 * m, Min(hi, lo + 4 * m - 1))
             s5 == For(body, s4, lo + 4 * m, Min(hi, lo + 5 * m - 1))
             s6 == For(body, s5, lo + 5 * m, Min(hi, lo + 6 * m - 1))
             s7 == For(body, s6, lo + 6 * m, Min(hi, lo + 7 * m - 1))
         IN  IF /\ Forced(s1) /\ Forced(s2) /\ Forced(s3) /\ Forced(s4)
                /\ Forced(s5) /\ Forced(s6) /\ Forced(s7)
             THEN For(body, s7, lo + 7 * m, hi)
             ELSE s

\* for cond(s) { s = body(s) }, for a loop that ends within n iterations
While(cond(_), body(_), s, n) ==
    For(LAMBDA x, i : IF cond(x) THEN body(x) ELSE x, s, 1, n)

\* the 8 bytes at s[from .. from+7], bytes past the end of s read as 0
\* (only used where the source has 8 bytes available or pads with zero)
Load8(s, from) == [i \in 1..8 |-> IF from + i - 1 <= Len(s) THEN s[from + i - 1] ELSE 0]

\* val & (^uint64(0) >> ignoredBits), ignoredBits a multiple of 8
MaskVal(val, ignoredBits) ==
    LET keep == IF ignoredBits >= 64 THEN 0 ELSE (64 - ignoredBits) \div 8
    IN  [i \in 1..8 |-> IF i <= keep THEN val[i] ELSE 0]

\* the first n bytes of a value, as a byte sequence
ValBytes(val, n) == [i \in 1..n |-> IF i <= 8 THEN val[i] ELSE 0]

(***************************************************************************)
(* src/symbol.go                                                           *)
(***************************************************************************)
\* low 26 bits of w * fsstHashPrime, for 0 <= w < 2^26 (13-bit limbs)
MulPrimeLow26(w) ==
    LET p  == (fsstHashPrimeHi % 1024) * 65536 + fsstHashPrimeLo
        p0 == p % 8192
        p1 == p \div 8192
        w0 == w % 8192
        w1 == w \div 8192
        mid == (w1 * p0 + w0 * p1) % 8192
    IN  (w0 * p0 + mid * 8192) % 67108864

\* low 11 bits of fsstHash(w) = x ^ (x >> 15), x = w * fsstHashPrime
fsstHash(w) ==
    LET x == MulPrimeLow26(w)
    IN  BitXor(x % fsstHashTabSize, (x \div 32768) % fsstHashTabSize)

packCodeLength(code, length) == (code % 4096) + ((length % 16) * 4096)

\* icl = (1<<28) | (code<<16) | 56 : a code of 4096 or more spills into the length bits
newSymbolFromByte(b, code) ==
    [val |-> [i \in 1..8 |-> IF i = 1 THEN b ELSE 0],
     length |-> BitOr(1, (code \div 4096) % 16),
     code |-> code % 4096,
     ignoredBits |-> 56]

setCodeLen(s, code, length) ==
    [val |-> s.val, length |-> length, code |-> code, ignoredBits |-> (8 - length) * 8]

newSymbolFromBytes(in) ==
    LET length == Min(Len(in), 8)
    IN  setCodeLen([val |-> Load8(SubSeq(in, 1, length), 1)], fsstCodeMax, length)

symLength(s) == s.length
symCode(s) == s.code % fsstCodeMax
symFirst(s) == s.val[1]
symFirst2(s) == s.val[1] + 256 * s.val[2]
symHash(s) == fsstHash(s.val[1] + 256 * s.val[2] + 65536 * s.val[3])

fsstConcat(a, b) ==
    LET lengthA == symLength(a)
        combinedLength == Min(lengthA + symLength(b), 8)
        \* (b.val << (8*lengthA)) | a.val, the bytes shifted past bit 63 are lost
        combinedValue == [i \in 1..8 |->
            BitOr(a.val[i], IF i > lengthA THEN b.val[i - lengthA] ELSE 0)]
    IN  setCodeLen([val |-> combinedValue], fsstCodeMask, combinedLength)

\* comparison of two icl words
IclLess(a, b) ==
    \/ a.length < b.length
    \/ a.length = b.length /\ a.code < b.code
    \/ a.length = b.length /\ a.code = b.code /\ a.ignoredBits < b.ignoredBits

IclLeq(a, b) == ~IclLess(b, a)

\* fsstICLFree = (15 << 28) | (fsstCodeMask << 16), with val = 0
FreeSlot == [val |-> ZeroVal, length |-> 15, code |-> fsstCodeMask, ignoredBits |-> 0]

(***************************************************************************)
(* src/table.go: the Table and its training-time operations                *)
(***************************************************************************)
\* sparse arrays: entries written one by one over a default
Put(f, k, v) == (k :> v) @@ f
Drop(f, k) == Explicit([x \in (DOMAIN f) \ {k} |-> f[x]])
NoEntries == <<>>

\* t.shortCodes[k]
shortCodeAt(t, k) ==
    IF k \in DOMAIN t.shortCodes THEN t.shortCodes[k] ELSE t.shortBase[k % 256]

\* t.shortCodes[k] = v
shortCodeSet(t, k, v) ==
    IF v = t.shortBase[k % 256]
    THEN [t EXCEPT !.shortCodes = Drop(@, k)]
    ELSE [t EXCEPT !.shortCodes = Put(@, k, v)]

\* t.hashTab[i]
hashTabAt(t, i) == IF i \in DOMAIN t.hashTab THEN t.hashTab[i] ELSE FreeSlot

newTable ==
    [shortCodes |-> NoEntries,
     shortBase |-> Explicit([i \in 0..255 |-> packCodeLength(i, 1)]),
     byteCodes |-> Explicit([i \in 0..255 |-> packCodeLength(i, 1)]),
     symbols |-> Explicit([i \in 0..(fsstCodeMax - 1) |->
                    IF i < 256 THEN newSymbolFromByte(i, packCodeLength(i, 1))
                    ELSE newSymbolFromByte(0, fsstCodeMask)]),
     hashTab |-> NoEntries,
     nSymbols |-> 0,
     suffixLim |-> 0,
     lenHisto |-> [i \in 1..8 |-> 0],
     accelReady |-> FALSE,
     noSuffixOpt |-> FALSE,
     avoidBranch |-> FALSE,
     encBuf |-> <<>>,
     decLen |-> Explicit([i \in 0..254 |-> 0]),
     decSymbol |-> Explicit([i \in 0..254 |-> ZeroVal]),
     decReady |-> FALSE]

\* clearOne that resets the entry of shortCodes to the code of both bytes
\* (first2Bytes without the mask fsstMask8)
clearOneUnmasked(t, i) ==
    LET s == t.symbols[i]
    IN  CASE symLength(s) = 1 ->
               [t EXCEPT !.byteCodes[symFirst(s)] = packCodeLength(symFirst(s), 1)]
          [] symLength(s) = 2 ->
               shortCodeSet(t, symFirst2(s), packCodeLength(symFirst2(s), 1))
          [] OTHER ->
               [t EXCEPT !.hashTab = Drop(@, symHash(s) % fsstHashTabSize)]

\* one iteration of the loop of clearSymbols, for symbols[i]
clearOne(t, i) ==
    LET s == t.symbols[i]
    IN  CASE symLength(s) = 1 ->
               [t EXCEPT !.byteCodes[symFirst(s)] = packCodeLength(symFirst(s), 1)]
          [] symLength(s) = 2 ->
               shortCodeSet(t, symFirst2(s), packCodeLength(symFirst2(s) % 256, 1))
          [] OTHER ->
               [t EXCEPT !.hashTab = Drop(@, symHash(s) % fsstHashTabSize)]

clearSymbols(t) ==
    [For(clearOne, [t EXCEPT !.lenHisto = [i \in 1..8 |-> 0]],
         fsstCodeBase, fsstCodeBase + t.nSymbols - 1)
       EXCEPT !.nSymbols = 0]

\* a hashInsert that stores the symbol before it tests the slot
hashInsertAtOver(t, sym, hashIndex) ==
    [t |-> [t EXCEPT !.hashTab = Put(@, hashIndex,
                [sym EXCEPT !.val = MaskVal(sym.val, sym.ignoredBits)])],
     ok |-> ~IclLess(hashTabAt(t, hashIndex), FreeSlot)]

\* hashInsert once hashIndex is known
hashInsertAt(t, sym, hashIndex) ==
    IF IclLess(hashTabAt(t, hashIndex), FreeSlot) THEN [t |-> t, ok |-> FALSE]
    ELSE [t |-> [t EXCEPT !.hashTab = Put(@, hashIndex,
                    [sym EXCEPT !.val = MaskVal(sym.val, sym.ignoredBits)])],
          ok |-> TRUE]

\* returns the table and the bool
hashInsert(t, sym) == hashInsertAt(t, sym, symHash(sym) % fsstHashTabSize)

\* the end of addSymbol without the count of the length in lenHisto
addSymbolDoneUncounted(t, sym, ins) ==
    IF ~ins.ok THEN [t |-> ins.t, ok |-> FALSE]
    ELSE [t |-> [ins.t EXCEPT !.symbols[symCode(sym)] = sym,
                              !.nSymbols = @ + 1],
          ok |-> TRUE]

\* returns the table and the bool
\* the end of addSymbol: ins is the table and the bool after the switch on the length
addSymbolDone(t, sym, ins) ==
    IF ~ins.ok THEN [t |-> ins.t, ok |-> FALSE]
    ELSE [t |-> [ins.t EXCEPT !.symbols[symCode(sym)] = sym,
                              !.nSymbols = @ + 1,
                              !.lenHisto[symLength(sym)] = @ + 1],
          ok |-> TRUE]

\* addSymbol once the code is set in the symbol
addSymbolCoded(t, sym) ==
    addSymbolDone(t, sym,
        CASE symLength(sym) = 1 ->
               [t |-> [t EXCEPT !.byteCodes[symFirst(sym)] = packCodeLength(symCode(sym), 1)],
                ok |-> TRUE]
          [] symLength(sym) = 2 ->
               [t |-> shortCodeSet(t, symFirst2(sym), packCodeLength(symCode(sym), 2)),
                ok |-> TRUE]
          [] OTHER -> hashInsert(t, sym))

addSymbol(t, sym) ==
    IF fsstCodeBase + t.nSymbols >= fsstCodeMax THEN [t |-> t, ok |-> FALSE]
    ELSE addSymbolCoded(t, setCodeLen(sym, fsstCodeBase + t.nSymbols, symLength(sym)))

\* findLongestSymbol taking the hash table entry whatever its length
longestWithAny(t, sym, hashEntry) ==
    LET short == shortCodeAt(t, symFirst2(sym)) % fsstCodeMax
    IN  IF IclLess(hashEntry, FreeSlot)
           /\ hashEntry.val = MaskVal(sym.val, hashEntry.ignoredBits)
        THEN symCode(hashEntry) % fsstCodeMax
        ELSE IF symLength(sym) >= 2 /\ short >= fsstCodeBase
        THEN short
        ELSE t.byteCodes[symFirst(sym)] % fsstCodeMax

\* the test of findLongestSymbol on the hash table entry, without the mask
hashHitUnmasked(sym, hashEntry) == IclLeq(hashEntry, sym) /\ hashEntry.val = sym.val

\* the test of findLongestSymbol on the hash table entry
hashHit(sym, hashEntry) ==
    IclLeq(hashEntry, sym) /\ hashEntry.val = MaskVal(sym.val, hashEntry.ignoredBits)

\* findLongestSymbol once the hash table entry is read
longestWith(t, sym, hashEntry) ==
    LET short == shortCodeAt(t, symFirst2(sym)) % fsstCodeMax
    IN  IF hashHit(sym, hashEntry)
        THEN symCode(hashEntry) % fsstCodeMax
        ELSE IF symLength(sym) >= 2 /\ short >= fsstCodeBase
        THEN short
        ELSE t.byteCodes[symFirst(sym)] % fsstCodeMax

findLongestSymbol(t, sym) ==
    longestWith(t, sym, hashTabAt(t, symHash(sym) % fsstHashTabSize))

(***************************************************************************)
(* counters (src/unnamed/part_003).  singleHigh/singleLow are arrays over  *)
(* the 512 codes; pairHigh/pairLow are kept row by row, a row holding the  *)
(* entries that were written (every other entry is 0).                     *)
(***************************************************************************)
newCounters ==
    [singleHigh |-> Explicit([i \in 0..(fsstCodeMax - 1) |-> 0]),
     singleLow |-> Explicit([i \in 0..(fsstCodeMax - 1) |-> 0]),
     pairHigh |-> NoEntries,
     pairLow |-> NoEntries,
     pairList |-> <<>>]

RowAt(m, r) == IF r \in DOMAIN m THEN m[r] ELSE NoEntries
CellAt(m, r, k) == IF r \in DOMAIN m /\ k \in DOMAIN m[r] THEN m[r][k] ELSE 0
CellSet(m, r, k, v) == Put(m, r, Put(RowAt(m, r), k, v))

incSingle(c, symbolCode) ==
    IF c.singleLow[symbolCode] = 0
    THEN [c EXCEPT !.singleLow[symbolCode] = 1,
                   !.singleHigh[symbolCode] = (@ + 1) % 256]
    ELSE [c EXCEPT !.singleLow[symbolCode] = (@ + 1) % 256]

incPair(c, code1, code2) ==
    LET byteIndex == code2 \div 2
        nibbleStep == IF code2 % 2 = 1 THEN 16 ELSE 1
        c1 == IF CellAt(c.pairLow, code1, code2) = 0
              THEN [c EXCEPT
                      !.pairHigh = CellSet(@, code1, byteIndex,
                                     (CellAt(@, code1, byteIndex) + nibbleStep) % 256),
                      !.pairList = Append(@, <<code1, code2>>)]
              ELSE c
    IN  [c1 EXCEPT !.pairLow = CellSet(@, code1, code2, (CellAt(@, code1, code2) + 1) % 256)]

\* the count read from a high part and a low byte, compensating the early increment
compensated(high, low) ==
    (IF low # 0 /\ high > 0 THEN high - 1 ELSE high) * 256 + low

\* returns the code the probe stops at and the count: the scan of
\* [code, 512) stops at the first code whose high or low byte is not 0
nextSingle(c, code) ==
    LET hits == {x \in code..(fsstCodeMax - 1) : c.singleHigh[x] # 0 \/ c.singleLow[x] # 0}
    IN  IF hits = {} THEN [code |-> Max(code, fsstCodeMax), count |-> 0]
        ELSE LET x == CHOOSE y \in hits : \A z \in hits : y <= z
             IN  [code |-> x, count |-> compensated(c.singleHigh[x], c.singleLow[x])]

pairNibble(c, code1, code2) ==
    LET b == CellAt(c.pairHigh, code1, code2 \div 2)
    IN  IF code2 % 2 = 1 THEN b \div 16 ELSE b % 16

\* returns the code2 the probe stops at and the count: the scan of
\* [current, 512) stops at the first code2 whose nibble or low byte is not 0,
\* which can only be an entry written in row code1
nextPair(c, code1, current) ==
    LET written == (DOMAIN RowAt(c.pairLow, code1))
                   \cup {2 * k : k \in DOMAIN RowAt(c.pairHigh, code1)}
                   \cup {2 * k + 1 : k \in DOMAIN RowAt(c.pairHigh, code1)}
        hits == {x \in written : /\ x >= current
                                 /\ x < fsstCodeMax
                                 /\ \/ pairNibble(c, code1, x) # 0
                                    \/ CellAt(c.pairLow, code1, x) # 0}
    IN  IF hits = {} THEN [code |-> Max(current, fsstCodeMax), count |-> 0]
        ELSE LET x == CHOOSE y \in hits : \A z \in hits : y <= z
             IN  [code |-> x,
                  count |-> compensated(pairNibble(c, code1, x), CellAt(c.pairLow, code1, x))]

(***************************************************************************)
(* src/train.go: parsing the sample and counting                           *)
(***************************************************************************)
\* a fast lookup without the test of the short code
fastWithNoShort(t, word, hashSymbol) ==
    IF IclLess(hashSymbol, FreeSlot) /\ hashSymbol.val = MaskVal(word, hashSymbol.ignoredBits)
    THEN [code |-> symCode(hashSymbol), advance |-> symLength(hashSymbol)]
    ELSE [code |-> t.byteCodes[word[1]] % fsstCodeMax, advance |-> 1]

\* data has at least 8 bytes from position on; returns code and advance
\* findNextSymbolFast once the word and the hash table entry are read
fastWith(t, word, hashSymbol) ==
    LET shortCode == shortCodeAt(t, word[1] + 256 * word[2]) % fsstCodeMax
        maskedWord == MaskVal(word, hashSymbol.ignoredBits)
    IN  IF IclLess(hashSymbol, FreeSlot) /\ hashSymbol.val = maskedWord
        THEN [code |-> symCode(hashSymbol), advance |-> symLength(hashSymbol)]
        ELSE IF shortCode >= fsstCodeBase
        THEN [code |-> shortCode, advance |-> 2]
        ELSE [code |-> t.byteCodes[word[1]] % fsstCodeMax, advance |-> 1]

\* t.hashTab[fsstHash(word & fsstMask24) & (fsstHashTabSize-1)]
hashTabFor(t, word) ==
    hashTabAt(t, fsstHash(word[1] + 256 * word[2] + 65536 * word[3]) % fsstHashTabSize)

fastAt(t, word) == fastWith(t, word, hashTabFor(t, word))

findNextSymbolFast(t, data, position) == fastAt(t, Load8(data, position + 1))

\* the window sample[i][pos : min(pos+8, end)] as a symbol
windowAt(line, pos) == newSymbolFromBytes(SubSeq(line, pos + 1, Min(pos + 8, Len(line))))

\* the next symbol at line[pos:], by the fast path when 8 bytes are left
\* and by findLongestSymbol otherwise; returns code and advance
nextSymbol(t, line, pos) ==
    IF pos < Len(line) - 7 THEN findNextSymbolFast(t, line, pos)
    ELSE LET next == findLongestSymbol(t, windowAt(line, pos))
         IN  [code |-> next, advance |-> symLength(t.symbols[next])]

\* the second half of an iteration of the inner loop of compressCount: the
\* pair counts and the move to the next symbol nx, c the counters after the
\* single counts
countNext(line, frac, s, c, nx) ==
    LET n == nx.advance
        c1 == incPair(c, s.cur, nx.code)
    IN  [s EXCEPT !.c = IF frac >= 128 THEN c
                        ELSE IF n > 1 THEN incPair(c1, s.cur, line[s.pos + 1])
                        ELSE c1,
                  !.cur = nx.code, !.pos = s.pos + n, !.start = s.pos]

\* one iteration of the inner loop of compressCount on a line; s carries the
\* counters, cur, pos, start, whether the loop has reached its break, and
\* the panic flag (an index or a slice bound out of range)
countStep(t, line, frac, s) ==
    LET c1 == incSingle(s.c, s.cur)
        c2 == IF s.pos - s.start # 1 THEN incSingle(c1, line[s.start + 1]) ELSE c1
    IN  IF s.pos = Len(line) THEN [s EXCEPT !.c = c2, !.done = TRUE]
        ELSE IF s.pos > Len(line) THEN [s EXCEPT !.c = c2, !.panic = TRUE]
        ELSE countNext(line, frac, s, c2, nextSymbol(t, line, s.pos))

\* the state of the inner loop of compressCount before its first iteration
countStart(t, c, cur) ==
    [c |-> c, cur |-> cur, pos |-> symLength(t.symbols[cur]), start |-> 0,
     done |-> FALSE, panic |-> FALSE]

\* the counters and the panic flag the inner loop leaves
countEnd(s) == [c |-> s.c, panic |-> s.panic]

\* the body of the loop of compressCount over the sample, for line i
\* (i counts from 0, as in the source); r carries the counters and the panic flag
countLine(t, sample, frac, r, i) ==
    IF r.panic THEN r
    ELSE IF frac < 128 /\ fsstHash(i) % (fsstSampleMask + 1) > frac THEN r
    ELSE IF Len(sample[i + 1]) = 0 THEN r
    ELSE countEnd(While(LAMBDA x : ~x.done /\ ~x.panic,
                        LAMBDA x : countStep(t, sample[i + 1], frac, x),
                        countStart(t, r.c, findLongestSymbol(t, windowAt(sample[i + 1], 0))),
                        Len(sample[i + 1])))

\* returns the counters and the panic flag
compressCount(t, c, sample, frac) ==
    For(LAMBDA r, i : countLine(t, sample, frac, r, i),
        [c |-> c, panic |-> FALSE], 0, Len(sample) - 1)

(***************************************************************************)
(* src/train.go: buildCandidates.  The candidates map is kept as the       *)
(* sequence of its entries in the order their keys were first inserted.    *)
(***************************************************************************)
\* a.val < b.val as uint64
RECURSIVE ValLessFrom(_, _, _)
ValLessFrom(a, b, i) ==
    IF i = 0 THEN FALSE
    ELSE IF a[i] # b[i] THEN a[i] < b[i]
    ELSE ValLessFrom(a, b, i - 1)

ValLess(a, b) == ValLessFrom(a, b, 8)

\* candidates[key] = qsym{symbol, gain (+ existing.gain)}, key = (val, length)
candidatePut(cands, sym, gain) ==
    LET hit == {i \in 1..Len(cands) :
                  cands[i].symbol.val = sym.val /\ symLength(cands[i].symbol) = symLength(sym)}
    IN  IF hit = {} THEN Append(cands, [symbol |-> sym, gain |-> gain])
        ELSE LET i == CHOOSE j \in hit : TRUE
             IN  [cands EXCEPT ![i] = [symbol |-> sym, gain |-> gain + cands[i].gain]]

\* the end of an iteration of the inner loop of buildCandidates: the merged
\* symbol enters the candidates
pairMerged(s, np, merged) ==
    [code2 |-> np.code + 1,
     cands |-> candidatePut(s.cands, merged, np.count * symLength(merged))]

\* an iteration of the inner loop of buildCandidates once nextPair has
\* returned np
pairWith(t, minCount, sym, s, np) ==
    IF np.count = 0 \/ np.count < minCount
    THEN [s EXCEPT !.code2 = np.code + 1]
    ELSE pairMerged(s, np, fsstConcat(sym, t.symbols[np.code]))

\* one iteration of the inner loop of buildCandidates; s carries code2 and
\* the candidates
pairCandidate(t, c, minCount, code, sym, s) ==
    pairWith(t, minCount, sym, s, nextPair(c, code, s.code2))

\* the candidates after the single symbol sym with the given count is considered
singleOf(cands, sym, count, minCount) ==
    LET weight == IF symLength(sym) = 1 THEN count * singleByteBoost ELSE count
    IN  IF weight >= minCount THEN candidatePut(cands, sym, weight * symLength(sym))
        ELSE cands

\* the inner loop of buildCandidates for the symbol sym of the given code
pairsOf(t, c, frac, minCount, code, sym, cands) ==
    IF symLength(sym) = 8 \/ frac >= 128 \/ ~Forced(cands) THEN cands
    ELSE While(LAMBDA x : x.code2 < fsstCodeBase + t.nSymbols,
               LAMBDA x : pairCandidate(t, c, minCount, code, sym, x),
               [code2 |-> 0, cands |-> cands], fsstCodeMax).cands

\* an iteration of the outer loop of buildCandidates once nextSingle has
\* returned ns
singleWith(t, c, frac, minCount, s, ns) ==
    IF ns.count = 0 THEN [s EXCEPT !.code = ns.code + 1]
    ELSE [code |-> ns.code + 1,
          cands |-> pairsOf(t, c, frac, minCount, ns.code, t.symbols[ns.code],
                            singleOf(s.cands, t.symbols[ns.code], ns.count, minCount))]

\* one iteration of the outer loop of buildCandidates; s carries code and
\* the candidates
singleCandidate(t, c, frac, minCount, s) ==
    singleWith(t, c, frac, minCount, s, nextSingle(c, s.code))

\* the candidates map after the two nested loops
collectCandidates(t, c, frac, minCount) ==
    While(LAMBDA x : x.code < fsstCodeBase + t.nSymbols,
          LAMBDA x : singleCandidate(t, c, frac, minCount, x),
          [code |-> 0, cands |-> <<>>], fsstCodeMax).cands

\* qsymHeap.Less
qsymLess(a, b) ==
    IF a.gain # b.gain THEN a.gain < b.gain
    ELSE ValLess(b.symbol.val, a.symbol.val)

\* container/heap on a qsymHeap; positions count from 0 as in Go
heapSwap(h, i, j) == [h EXCEPT ![i + 1] = h[j + 1], ![j + 1] = h[i + 1]]

RECURSIVE heapUp(_, _)
heapUp(h, j) ==
    LET i == IF j = 0 THEN 0 ELSE (j - 1) \div 2
    IN  IF i = j \/ ~qsymLess(h[j + 1], h[i + 1]) THEN h
        ELSE heapUp(heapSwap(h, i, j), i)

RECURSIVE heapDown(_, _, _)
heapDown(h, i, n) ==
    LET j1 == 2 * i + 1
    IN  IF j1 >= n THEN h
        ELSE LET j == IF j1 + 1 < n /\ qsymLess(h[j1 + 2], h[j1 + 1]) THEN j1 + 1 ELSE j1
             IN  IF ~qsymLess(h[j + 1], h[i + 1]) THEN h
                 ELSE heapDown(heapSwap(h, i, j), j, n)

heapPush(h, x) == heapUp(Append(h, x), Len(h))

\* returns the heap and the element removed
heapPop(h) ==
    LET n == Len(h) - 1
        h1 == heapDown(heapSwap(h, 0, n), 0, n)
    IN  [h |-> SubSeq(h1, 1, n), x |-> h1[n + 1]]

\* one iteration of the selection loop of buildCandidates
selectTop(h, candidate) ==
    IF Len(h) < fsstMaxSymbols THEN heapPush(h, candidate)
    ELSE IF \/ candidate.gain > h[1].gain
            \/ candidate.gain = h[1].gain /\ ValLess(candidate.symbol.val, h[1].symbol.val)
    THEN heapPush(heapPop(h).h, candidate)
    ELSE h

Reverse(s) == [i \in 1..Len(s) |-> s[Len(s) - i + 1]]

\* the zero qsym of make([]qsym, len(h))
ZeroQsym == [symbol |-> [val |-> ZeroVal, length |-> 0, code |-> 0, ignoredBits |-> 0],
             gain |-> 0]

\* list[n-1-k] = heap.Pop, r being what heapPop returned
popInto(s, n, k, r) == [h |-> r.h, list |-> [s.list EXCEPT ![n - k] = r.x]]

\* list[i] = heap.Pop for i = len-1 .. 0, then the reversal loop
extractList(h0) ==
    Reverse(For(LAMBDA s, k : popInto(s, Len(h0), k, heapPop(s.h)),
                [h |-> h0, list |-> [i \in 1..Len(h0) |-> ZeroQsym]], 0, Len(h0) - 1).list)

\* the orders in which the candidates map is iterated: Go leaves the order
\* unspecified; the model draws it from insertion order and its reverse
MapOrders == {"forward", "backward"}
iterationOrder(cands, order) == IF order = "forward" THEN cands ELSE Reverse(cands)

\* the selection loop and the extraction, over the candidates in iteration order
selectList(cands) ==
    IF Forced(cands)
    THEN extractList(For(LAMBDA x, i : selectTop(x, cands[i]), <<>>, 1, Len(cands)))
    ELSE <<>>

minCountOf(frac) == Max((minCountNumerator * frac) \div minCountDenominator, 1)

\* the list of selected candidates, as it stands before clearSymbols
candidateList(t, c, frac, order) ==
    selectList(iterationOrder(collectCandidates(t, c, frac, minCountOf(frac)), order))

\* the last loop of buildCandidates, on the cleared table
addSymbols(cleared, list) ==
    IF Forced(list) /\ Forced(cleared)
    THEN While(LAMBDA s : s.i < Len(list) /\ s.t.nSymbols < fsstMaxSymbols,
               LAMBDA s : [t |-> addSymbol(s.t, list[s.i + 1].symbol).t, i |-> s.i + 1],
               [t |-> cleared, i |-> 0], Len(list)).t
    ELSE cleared

\* the end of buildCandidates: clearSymbols, then the loop over the list
buildFrom(t, list) == addSymbols(clearSymbols(t), list)

buildCandidates(t, c, frac, order) == buildFrom(t, candidateList(t, c, frac, order))

(***************************************************************************)
(* src/table.go: finalize                                                  *)
(***************************************************************************)
\* an iteration of the loop of finalize that takes every 2-byte symbol for
\* one with a unique prefix
finalizeOneUnique(t, f, i) ==
    LET sym == f.symbols[fsstCodeBase + i]
        length == symLength(sym)
        newCode == IF length = 2 THEN f.suffixLim % 256 ELSE f.codeStart[length]
        f1 == IF length = 2 THEN [f EXCEPT !.suffixLim = @ + 1]
              ELSE [f EXCEPT !.codeStart[length] = (@ + 1) % 256]
    IN  [f1 EXCEPT !.symbols[newCode] = setCodeLen(sym, newCode, length)]

\* one iteration of the loop of finalize; f carries symbols, suffixLim,
\* codeStart (indexed by length) and conflictingTwoByteCode
finalizeOne(t, f, i) ==
    LET sym == f.symbols[fsstCodeBase + i]
        length == symLength(sym)
        hasConflict == \E k \in 0..(t.nSymbols - 1) :
                         /\ k # i
                         /\ symLength(f.symbols[fsstCodeBase + k]) > 1
                         /\ symFirst2(f.symbols[fsstCodeBase + k]) = symFirst2(sym)
        newCode == IF length = 2
                   THEN IF ~hasConflict THEN f.suffixLim % 256
                        ELSE (f.conflictingTwoByteCode - 1) % 256
                   ELSE f.codeStart[length]
        f1 == IF length = 2
              THEN IF ~hasConflict THEN [f EXCEPT !.suffixLim = @ + 1]
                   ELSE [f EXCEPT !.conflictingTwoByteCode = @ - 1]
              ELSE [f EXCEPT !.codeStart[length] = (@ + 1) % 256]
    IN  [f1 EXCEPT !.symbols[newCode] = setCodeLen(sym, newCode, length)]

\* the table once the loop of finalize has run
finalizeEnd(t, f) == [t EXCEPT !.symbols = f.symbols, !.suffixLim = f.suffixLim]

\* the loop of finalize, from the code layout f0
finalizeFrom(t, f0) ==
    finalizeEnd(t, For(LAMBDA x, i : finalizeOne(t, x, i), f0, 0, t.nSymbols - 1))

finalize(t) ==
    LET byteLim == ((t.nSymbols % 256) - (t.lenHisto[1] % 256)) % 256
        RECURSIVE start(_)
        \* codeStart by length: 1-byte symbols from byteLim, 2-byte from 0, then cumulative
        start(l) == IF l = 1 THEN byteLim
                    ELSE IF l = 2 THEN 0
                    ELSE (start(l - 1) + (t.lenHisto[l - 1] % 256)) % 256
    IN  finalizeFrom(t, [symbols |-> [t.symbols EXCEPT ![0] = t.symbols[fsstCodeBase]],
                         suffixLim |-> start(2),
                         codeStart |-> Explicit([l \in 1..8 |-> start(l)]),
                         conflictingTwoByteCode |-> start(3)])

(***************************************************************************)
(* src/train.go: makeSample and the rounds of Train                        *)
(***************************************************************************)
fsstSampleMaxSz == 32768
fsstSampleLine == 512
rngSeed == 4637947

\* a number below 2^31 as a uint64
ValOf(n) ==
    <<n % 256, (n \div 256) % 256, (n \div 65536) % 256, n \div 16777216, 0, 0, 0, 0>>

\* byte j (from 0) of fsstHashPrime
primeByte(j) ==
    CASE j = 0 -> fsstHashPrimeLo % 256
      [] j = 1 -> fsstHashPrimeLo \div 256
      [] j = 2 -> fsstHashPrimeHi % 256
      [] j = 3 -> fsstHashPrimeHi \div 256

\* column k (from 0) of the product w * fsstHashPrime, with the carry of the
\* columns below it
RECURSIVE mulCarry(_, _)
mulCarry(w, k) ==
    LET column == LET term(j) == IF k >= j THEN w[k - j + 1] * primeByte(j) ELSE 0
                  IN  term(0) + term(1) + term(2) + term(3)
    IN  IF k = 0 THEN column ELSE column + (mulCarry(w, k - 1) \div 256)

\* w * fsstHashPrime on 64 bits
mulPrime(w) == Bound(w, LAMBDA v : Explicit([k \in 1..8 |-> mulCarry(v, k - 1) % 256]))

\* x >> fsstShift, fsstShift being 15
shiftRight15(x) ==
    Explicit([k \in 1..8 |->
                (((IF k + 1 <= 8 THEN x[k + 1] ELSE 0)
                  + 256 * (IF k + 2 <= 8 THEN x[k + 2] ELSE 0)) \div 128) % 256])

\* x ^ y
xorVal(x, y) == Explicit([k \in 1..8 |-> BitXor(x[k], y[k])])

\* x ^ (x >> fsstShift)
xorShifted(x) == Bound(x, LAMBDA v : xorVal(v, Bound(shiftRight15(v), LAMBDA u : u)))

\* fsstHash(w) on all 64 bits: x := w * fsstHashPrime; x ^ (x >> fsstShift)
fsstHash64(w) == xorShifted(mulPrime(w))

\* w % n for a uint64 w and 0 < n < 2^20, from the high byte down
RECURSIVE modFrom(_, _, _)
modFrom(w, n, k) ==
    IF k > 8 THEN 0 ELSE (modFrom(w, n, k + 1) * 256 + w[k]) % n

valMod(w, n) == Bound(w, LAMBDA v : modFrom(v, n, 1))

\* the sum of the lengths of the inputs
RECURSIVE totalFrom(_, _)
totalFrom(inputs, i) ==
    IF i > Len(inputs) THEN 0 ELSE Len(inputs[i]) + totalFrom(inputs, i + 1)

sampleTotal(inputs) == totalFrom(inputs, 1)

\* for len(inputs[idx]) == 0 { idx = (idx + 1) % len(inputs) }, some input
\* being nonempty; idx counts from 0
skipEmpty(inputs, idx) ==
    LET steps == {k \in 0..(Len(inputs) - 1) : Len(inputs[((idx + k) % Len(inputs)) + 1]) # 0}
    IN  (idx + (CHOOSE k \in steps : \A j \in steps : k <= j)) % Len(inputs)

\* the offset of the window in inputs[idx]: a window picked at any byte
sampleOffsetAnywhere(inputs, idx, rng) == valMod(rng, Len(inputs[idx + 1]))

\* the offset of the window in inputs[idx]
sampleOffset(inputs, idx, rng) ==
    fsstSampleLine
      * valMod(rng, (Len(inputs[idx + 1]) + fsstSampleLine - 1) \div fsstSampleLine)

\* the end of an iteration of the loop of makeSample, the window being n
\* bytes at off of inputs[idx]
samplePicked(inputs, s, rng, idx, off, n) ==
    IF s.pos + n > fsstSampleMaxSz THEN [s EXCEPT !.rng = rng, !.done = TRUE]
    ELSE [rng |-> rng,
          pos |-> s.pos + n,
          sample |-> Append(s.sample, SubSeq(inputs[idx + 1], off + 1, off + n)),
          picks |-> Append(s.picks, <<idx, off, n>>),
          done |-> s.pos + n >= fsstSampleTarget]

\* the iteration once idx is known
sampleAt(inputs, s, rng, idx) ==
    Bound(sampleOffset(inputs, idx, rng),
          LAMBDA off : samplePicked(inputs, s, rng, idx, off,
                                    Min(Len(inputs[idx + 1]) - off, fsstSampleLine)))

\* one iteration of the loop of makeSample; s carries rng, pos, sample, the
\* windows picked (input, offset, length) and whether the loop has ended
sampleStep(inputs, s) ==
    Bound(fsstHash64(s.rng),
          LAMBDA rng : Bound(fsstHash64(rng),
                             LAMBDA next : sampleAt(inputs, s, next,
                                                    skipEmpty(inputs, valMod(rng, Len(inputs))))))

\* makeSample before its loop
sampleStart ==
    [rng |-> fsstHash64(ValOf(rngSeed)), pos |-> 0, sample |-> <<>>, picks |-> <<>>,
     done |-> FALSE]

sampleRunning(s) == ~s.done /\ s.pos < fsstSampleMaxSz

\* the locals of makeSample but the sample
sampleLocals(s) == [rng |-> s.rng, pos |-> s.pos, picks |-> s.picks, done |-> s.done]

makeSample(inputs) ==
    IF sampleTotal(inputs) < fsstSampleTarget THEN inputs
    ELSE While(sampleRunning, LAMBDA s : sampleStep(inputs, s), sampleStart,
               fsstSampleMaxSz).sample

\* what a round returns: the table buildCandidates leaves, the list it
\* inserted, and the list it selects when the map is iterated in the order
\* of insertion (ref)
roundSelected(t, list, ref) ==
    [t |-> buildFrom(t, list), panic |-> FALSE, list |-> list, ref |-> ref]

\* buildCandidates on the candidates cands, iterated in the given order
roundOver(t, order, cands) ==
    roundSelected(t, selectList(iterationOrder(cands, order)), selectList(cands))

\* the second half of a round, r being what compressCount returned
roundBuilt(t, frac, order, r) ==
    IF r.panic THEN [t |-> t, panic |-> TRUE, list |-> <<>>, ref |-> <<>>]
    ELSE roundOver(t, order, collectCandidates(t, r.c, frac, minCountOf(frac)))

\* one round of the loop of Train: returns the table, the panic flag and the
\* list of selected candidates
trainRound(t, sample, frac, order) ==
    roundBuilt(t, frac, order, compressCount(t, newCounters, sample, frac))

(***************************************************************************)
(* src/table.go: WriteTo, ReadFrom, rebuildIndices, chooseVariant          *)
(***************************************************************************)
\* symbol bytes written as the whole 8-byte value
symbolBytesWhole(t, out, i) == out \o ValBytes(t.symbols[i].val, 8)

\* the symbol bytes WriteTo writes after symbol i
symbolBytes(t, out, i) == out \o ValBytes(t.symbols[i].val, symLength(t.symbols[i]))

\* the bytes WriteTo writes (symbols of this model have lengths 0..8)
WriteTo(t) ==
    LET hdr == <<1,
                 t.nSymbols % 256,
                 BitOr(t.suffixLim % 256, t.nSymbols \div 256),
                 (t.suffixLim \div 256) % 256>> \o fsstVersionBytes
        hist == [l \in 1..8 |->
                   Cardinality({i \in 0..(t.nSymbols - 1) : symLength(t.symbols[i]) = l})]
        lh == [l \in 1..8 |-> hist[l] % 256]
    IN  For(LAMBDA out, i : symbolBytes(t, out, i), hdr \o lh, 0, t.nSymbols - 1)

\* io.ReadFull of want bytes from data at offset off
ReadFull(data, off, want) ==
    IF want = 0 THEN "nil"
    ELSE IF Len(data) - off <= 0 THEN "EOF"
    ELSE IF Len(data) - off < want THEN "ErrUnexpectedEOF"
    ELSE "nil"

Repeat(v, n) == [i \in 1..n |-> v]

\* the code -> length schedule ReadFrom derives from lenHisto: lengths 2..8, then 1
RECURSIVE lensFrom(_, _)
lensFrom(lenHisto, l) ==
    IF l > 8 THEN Repeat(1, lenHisto[1])
    ELSE Repeat(l, lenHisto[l]) \o lensFrom(lenHisto, l + 1)

\* one iteration of the symbol-reading loop of ReadFrom; r carries the
\* table, the byte count and the error
readSymbol(data, lens, r, i) ==
    IF r.err # "nil" THEN r
    ELSE
      LET symbolLength == IF i + 1 <= Len(lens) THEN lens[i + 1] ELSE 0
          err == ReadFull(data, r.n, symbolLength)
      IN  IF err # "nil" THEN [r EXCEPT !.err = err]
          ELSE
            LET b8 == Load8(SubSeq(data, r.n + 1, r.n + symbolLength), 1)
                sym == setCodeLen([val |-> b8], i, symbolLength)
            IN  [r EXCEPT !.t.symbols[i] = sym, !.n = @ + symbolLength]

\* the end of ReadFrom, r being what the symbol-reading loop left
readDone(r) == IF r.err # "nil" THEN r ELSE [r EXCEPT !.t.accelReady = FALSE]

\* ReadFrom from the length histogram on: "panic" is the index out of range
\* on lens[pos] when the histogram announces more than nSymbols
readSymbols(t, data, lens) ==
    IF Len(lens) > t.nSymbols THEN [t |-> t, n |-> 16, err |-> "panic"]
    ELSE readDone(For(LAMBDA x, i : readSymbol(data, lens, x, i),
                      [t |-> t, n |-> 16, err |-> "nil"], 0, t.nSymbols - 1))

\* ReadFrom once the header is read into the table
readHisto(t, data) ==
    IF ReadFull(data, 8, 8) # "nil" THEN [t |-> t, n |-> 8, err |-> ReadFull(data, 8, 8)]
    ELSE readSymbols([t EXCEPT !.lenHisto = [l \in 1..8 |-> data[8 + l]]], data,
                     lensFrom([l \in 1..8 |-> data[8 + l]], 2))

\* ReadFrom on the receiver t
readInto(t, data) ==
    IF ReadFull(data, 0, 8) # "nil" THEN [t |-> t, n |-> 0, err |-> ReadFull(data, 0, 8)]
    ELSE IF SubSeq(data, 5, 8) # fsstVersionBytes
    THEN [t |-> t, n |-> 8, err |-> "ErrBadVersion"]
    ELSE readHisto([t EXCEPT !.suffixLim = data[3], !.nSymbols = data[2]], data)

\* a new table, then ReadFrom; returns the table, the byte count and the error
ReadFrom(data) == readInto(newTable, data)

\* the bodies of the loops of steps 2, 4 and 5 of rebuildIndices
applySingle(t, i) ==
    IF symLength(t.symbols[i]) = 1
    THEN [t EXCEPT !.byteCodes[symFirst(t.symbols[i])] = packCodeLength(i, 1)]
    ELSE t

applyPair(t, i) ==
    IF symLength(t.symbols[i]) = 2
    THEN shortCodeSet(t, symFirst2(t.symbols[i]), packCodeLength(i, 2))
    ELSE t

applyLong(t, i) ==
    IF symLength(t.symbols[i]) >= 3 THEN hashInsert(t, t.symbols[i]).t ELSE t

\* steps 1 and 2 of rebuildIndices
rebuildSingles(t) ==
    For(applySingle,
        [t EXCEPT !.byteCodes = Explicit([i \in 0..255 |-> packCodeLength(fsstCodeMask, 1)]),
                  !.hashTab = NoEntries],
        0, t.nSymbols - 1)

\* steps 3 and 4 without step 3: shortCodes is not reset to mirror byteCodes
rebuildPairsUnmirrored(t) ==
    For(applyPair, t, 0, t.nSymbols - 1)

\* steps 3 and 4
rebuildPairs(t) ==
    For(applyPair, [t EXCEPT !.shortBase = t.byteCodes, !.shortCodes = NoEntries],
        0, t.nSymbols - 1)

\* step 5
rebuildLong(t) == For(applyLong, t, 0, t.nSymbols - 1)

rebuildIndices(t) ==
    IF t.accelReady THEN t
    ELSE [rebuildLong(rebuildPairs(rebuildSingles(t))) EXCEPT !.accelReady = TRUE]

\* returns <<noSuffixOpt, avoidBranch>>
chooseVariant(t) ==
    IF /\ 100 * t.lenHisto[2] > 65 * t.nSymbols
       /\ 100 * t.suffixLim > 95 * t.lenHisto[2]
    THEN <<TRUE, FALSE>>
    ELSE <<FALSE,
           /\ t.lenHisto[1] > 24 /\ t.lenHisto[1] < 92
           /\ (t.lenHisto[1] < 43 \/ t.lenHisto[7] + t.lenHisto[8] < 29)
           /\ (t.lenHisto[1] < 72 \/ t.lenHisto[3] < 72)>>

(***************************************************************************)
(* src/table.go: Encode, encodeChunk, Decode                               *)
(***************************************************************************)
\* the variant flags and the chunk buffer, on a table whose indices are built
encodeReady(t) ==
    [t EXCEPT !.noSuffixOpt = chooseVariant(t)[1], !.avoidBranch = chooseVariant(t)[2],
              !.encBuf = Explicit([i \in 1..(fsstChunkSize + fsstChunkPadding) |-> 0])]

\* the lazy initialisation at the head of Encode
encodeInit(t) ==
    IF t.encBuf # <<>> THEN t
    ELSE encodeReady(IF ~t.accelReady THEN rebuildIndices(t) ELSE t)

\* encodeWith with a branchless path that advances by one byte whatever the
\* length packed in the code
encodeWithOneByte(t, word, byteLim, hashSymbol) ==
    LET code == shortCodeAt(t, word[1] + 256 * word[2])
        escapeByte == word[1]
        maskedWord == MaskVal(word, hashSymbol.ignoredBits)
        escaped == IF Bit(code, fsstCodeBase) # 0 THEN <<code % 256, escapeByte>>
                   ELSE <<code % 256>>
    IN  IF t.noSuffixOpt /\ code % 256 < t.suffixLim % 256
        THEN [emit |-> <<code % 256>>, advance |-> 2]
        ELSE IF IclLess(hashSymbol, FreeSlot) /\ hashSymbol.val = maskedWord
        THEN [emit |-> <<symCode(hashSymbol) % 256>>, advance |-> symLength(hashSymbol)]
        ELSE IF t.avoidBranch
        THEN [emit |-> escaped, advance |-> 1]
        ELSE IF code % 256 < byteLim
        THEN [emit |-> <<code % 256>>, advance |-> 2]
        ELSE [emit |-> escaped, advance |-> 1]

\* an iteration of the loop of encodeChunk once the word and the hash table
\* entry are read
encodeWith(t, word, byteLim, hashSymbol) ==
    LET code == shortCodeAt(t, word[1] + 256 * word[2])
        escapeByte == word[1]
        maskedWord == MaskVal(word, hashSymbol.ignoredBits)
        escaped == IF Bit(code, fsstCodeBase) # 0 THEN <<code % 256, escapeByte>>
                   ELSE <<code % 256>>
    IN  IF t.noSuffixOpt /\ code % 256 < t.suffixLim % 256
        THEN [emit |-> <<code % 256>>, advance |-> 2]
        ELSE IF IclLess(hashSymbol, FreeSlot) /\ hashSymbol.val = maskedWord
        THEN [emit |-> <<symCode(hashSymbol) % 256>>, advance |-> symLength(hashSymbol)]
        ELSE IF t.avoidBranch
        THEN [emit |-> escaped, advance |-> code \div 4096]
        ELSE IF code % 256 < byteLim
        THEN [emit |-> <<code % 256>>, advance |-> 2]
        ELSE [emit |-> escaped, advance |-> 1]

encodeAt(t, word, byteLim) == encodeWith(t, word, byteLim, hashTabFor(t, word))

\* one iteration of the loop of encodeChunk at position: the bytes it
\* appends to dst and the advance of position
encodeStep(t, buf, byteLim, position) == encodeAt(t, Load8(buf, position + 1), byteLim)

\* the state of the loop of encodeChunk after the step e
emitStep(s, e) == [dst |-> s.dst \o e.emit, position |-> s.position + e.advance]

\* dst and position as the loop of encodeChunk leaves them
encodeChunkLoop(t, dst, buf, end, byteLim) ==
    While(LAMBDA s : s.position < end,
          LAMBDA s : emitStep(s, encodeStep(t, buf, byteLim, s.position)),
          [dst |-> dst, position |-> 0], end)

\* returns dst with the codes of the chunk buf[0..end) appended
encodeChunk(t, dst, buf, end, byteLim) == encodeChunkLoop(t, dst, buf, end, byteLim).dst

\* copy(buf[:chunk], input[chunkStart:chunkStart+chunk]); buf[chunk] = 0
loadChunk(buf, input, chunkStart, chunk) ==
    Explicit([i \in 1..Len(buf) |->
                IF i <= chunk THEN input[chunkStart + i]
                ELSE IF i = chunk + 1 THEN 0
                ELSE buf[i]])

\* one iteration of the chunk loop of Encode; s carries out, the chunk
\* buffer and chunkStart
encodeOne(t, input, byteLim, s) ==
    LET chunk == Min(Len(input) - s.chunkStart, fsstChunkSize)
        buf == loadChunk(s.buf, input, s.chunkStart, chunk)
    IN  IF Forced(buf)
        THEN [out |-> encodeChunk(t, s.out, buf, chunk, byteLim),
              buf |-> buf,
              chunkStart |-> s.chunkStart + chunk]
        ELSE s

\* what Encode returns, s being what its chunk loop left
encodeDone(t, s) == [t |-> [t EXCEPT !.encBuf = s.buf], out |-> s.out]

\* byteLim as Encode computes it
byteLimOf(t) == ((t.nSymbols % 256) - (t.lenHisto[1] % 256)) % 256

\* Encode after its lazy initialisation
encodeAll(t, input) ==
    IF Forced(t)
    THEN encodeDone(t,
           While(LAMBDA x : x.chunkStart < Len(input),
                 LAMBDA x : encodeOne(t, input,
                                      ((t.nSymbols % 256) - (t.lenHisto[1] % 256)) % 256, x),
                 [out |-> <<>>, buf |-> t.encBuf, chunkStart |-> 0],
                 (Len(input) \div fsstChunkSize) + 1))
    ELSE [t |-> t, out |-> <<>>]

\* returns the table (its indices, flags and chunk buffer as Encode leaves
\* them) and the compressed bytes
Encode(t, input) == encodeAll(encodeInit(t), input)

\* the lazy initialisation at the head of Decode
decodeInit(t) ==
    IF t.decReady THEN t
    ELSE [For(LAMBDA x, code : [x EXCEPT !.decLen[code] = symLength(x.symbols[code]) % 256,
                                         !.decSymbol[code] = x.symbols[code].val],
              t, 0, t.nSymbols - 1)
          EXCEPT !.decReady = TRUE]

\* an iteration of the loop of Decode that emits the escape code itself
\* when no literal follows it
decodeStepEmitting(t, in, s) ==
    LET code == in[s.inputPos + 1]
    IN  IF code < fsstEscapeCode
        THEN [s EXCEPT !.out = @ \o ValBytes(t.decSymbol[code], t.decLen[code]),
                       !.inputPos = @ + 1]
        ELSE IF s.inputPos + 1 >= Len(in)
        THEN [s EXCEPT !.out = Append(@, code), !.inputPos = @ + 1, !.done = TRUE]
        ELSE [s EXCEPT !.out = Append(@, in[s.inputPos + 2]), !.inputPos = @ + 2]

\* one iteration of the loop of Decode; s carries out, inputPos and whether
\* the loop has reached its break
decodeStep(t, in, s) ==
    LET code == in[s.inputPos + 1]
    IN  IF code < fsstEscapeCode
        THEN [s EXCEPT !.out = @ \o ValBytes(t.decSymbol[code], t.decLen[code]),
                       !.inputPos = @ + 1]
        ELSE IF s.inputPos + 1 >= Len(in) THEN [s EXCEPT !.inputPos = @ + 1, !.done = TRUE]
        ELSE [s EXCEPT !.out = Append(@, in[s.inputPos + 2]), !.inputPos = @ + 2]

\* what Decode returns, s being what its loop left; truncated tells that
\* the loop stopped at an escape code that was the last byte
decodeDone(t, s) == [t |-> t, out |-> s.out, truncated |-> s.done]

\* Decode after its lazy initialisation
decodeAll(t, in) ==
    IF Forced(t)
    THEN decodeDone(t, While(LAMBDA x : ~x.done /\ x.inputPos < Len(in),
                             LAMBDA x : decodeStep(t, in, x),
                             [out |-> <<>>, inputPos |-> 0, done |-> FALSE], Len(in)))
    ELSE [t |-> t, out |-> <<>>, truncated |-> FALSE]

\* returns the table (its decoder arrays as Decode leaves them), the
\* decompressed bytes and whether the input ended in a lone escape code
Decode(t, in) == decodeAll(decodeInit(t), in)

(***************************************************************************)
(* src/unnamed/part_000: Encode(buf, input) and Decode(buf, src), which    *)
(* write by index into a buffer of a given capacity.  A buffer is kept as  *)
(* its capacity and the bytes written so far (both write front to back);   *)
(* NilBuf stands for a nil buf.  panic is a write outside the buffer.      *)
(***************************************************************************)
NilBuf == -1

\* len(buf) when Encode keeps whatever buffer it is handed
encodeCapKept(bufCap, input) ==
    IF bufCap = NilBuf THEN 2 * Len(input) + fsstOutputPadding ELSE bufCap

\* len(buf) after the three-way allocation at the head of Encode
encodeCap(bufCap, input) ==
    IF bufCap = NilBuf THEN 2 * Len(input) + fsstOutputPadding
    ELSE IF bufCap < 2 * Len(input) + fsstOutputPadding
    THEN 2 * Len(input) + fsstOutputPadding
    ELSE bufCap

\* dst[dstPos] = b; dstPos++ for every b of bytes
writeCodes(d, bytes) ==
    IF d.panic THEN d
    ELSE IF Len(d.out) + Len(bytes) > d.cap
    THEN [d EXCEPT !.out = @ \o SubSeq(bytes, 1, d.cap - Len(d.out)), !.panic = TRUE]
    ELSE [d EXCEPT !.out = @ \o bytes]

\* the state of the loop of encodeChunk after the step e
writeStep(s, e) == [d |-> writeCodes(s.d, e.emit), position |-> s.position + e.advance]

\* encodeChunk(dst, dstPos, buf, end, byteLim): the body of its loop is
\* that of encodeChunk in src/table.go, with indexed writes
encodeChunkAt(t, d, buf, end, byteLim) ==
    While(LAMBDA s : s.position < end /\ ~s.d.panic,
          LAMBDA s : writeStep(s, encodeStep(t, buf, byteLim, s.position)),
          [d |-> d, position |-> 0], end).d

\* one iteration of the chunk loop of Encode(buf, input)
encodeOneAt(t, input, byteLim, s) ==
    LET chunk == Min(Len(input) - s.chunkStart, fsstChunkSize)
        buf == loadChunk(s.buf, input, s.chunkStart, chunk)
    IN  IF Forced(buf)
        THEN [d |-> encodeChunkAt(t, s.d, buf, chunk, byteLim),
              buf |-> buf,
              chunkStart |-> s.chunkStart + chunk]
        ELSE s

\* what Encode(buf, input) returns, s being what its chunk loop left
encodeBufDone(t, s) ==
    [t |-> [t EXCEPT !.encBuf = s.buf], out |-> s.d.out, cap |-> s.d.cap, panic |-> s.d.panic]

\* Encode(buf, input) after its lazy initialisation
encodeBufAll(t, bufCap, input) ==
    IF Forced(t)
    THEN encodeBufDone(t,
           While(LAMBDA x : x.chunkStart < Len(input) /\ ~x.d.panic,
                 LAMBDA x : encodeOneAt(t, input,
                                        ((t.nSymbols % 256) - (t.lenHisto[1] % 256)) % 256, x),
                 [d |-> [cap |-> encodeCap(bufCap, input), out |-> <<>>, panic |-> FALSE],
                  buf |-> t.encBuf, chunkStart |-> 0],
                 (Len(input) \div fsstChunkSize) + 1))
    ELSE [t |-> t, out |-> <<>>, cap |-> 0, panic |-> FALSE]

\* returns the table, the bytes of buf[:outPos], the capacity of the buffer
\* written to, and whether a write fell outside it
EncodeBuf(t, bufCap, input) == encodeBufAll(encodeInit(t), bufCap, input)

\* cap(buf) at the head of the loop of Decode(buf, src)
decodeCap(bufCap, src) == IF bufCap = NilBuf THEN Len(src) * 4 + 8 ELSE bufCap

\* the capacity when Decode never grows its buffer
grownCapKept(d, need) == d.cap

\* "Grow buffer if needed": the capacity that holds need more bytes
grownCap(d, need) ==
    IF Len(d.out) + need > d.cap THEN Max(d.cap * 2, Len(d.out) + need) ELSE d.cap

\* a growth that allocates the new buffer and leaves out the copy
grownUncopied(d, need) ==
    IF Len(d.out) + need > d.cap
    THEN [d EXCEPT !.cap = grownCap(d, need), !.out = [i \in 1..Len(d.out) |-> 0]]
    ELSE d

\* "Grow buffer if needed": newBuf of the new capacity, holding buf[:bufPos]
grown(d, need) == [d EXCEPT !.cap = grownCap(d, need)]

\* the writes of a symbol or of a literal into buf at bufPos
writeBytes(d, bytes) ==
    IF Len(d.out) + Len(bytes) > d.cap THEN [d EXCEPT !.panic = TRUE]
    ELSE [d EXCEPT !.out = @ \o bytes]

\* one iteration of the loop of Decode(buf, src); s carries the buffer,
\* srcPos and whether the loop has reached its break
decodeStepAt(t, src, s) ==
    LET code == src[s.srcPos + 1]
    IN  IF code < fsstEscapeCode
        THEN [s EXCEPT !.d = writeBytes(grown(s.d, t.decLen[code]),
                                        ValBytes(t.decSymbol[code], t.decLen[code])),
                       !.srcPos = @ + 1]
        ELSE IF s.srcPos + 1 >= Len(src) THEN [s EXCEPT !.srcPos = @ + 1, !.done = TRUE]
        ELSE [s EXCEPT !.d = writeBytes(grown(s.d, 1), <<src[s.srcPos + 2]>>),
                       !.srcPos = @ + 2]

\* what Decode(buf, src) returns, s being what its loop left
decodeBufDone(t, s) == [t |-> t, out |-> s.d.out, cap |-> s.d.cap, panic |-> s.d.panic]

\* Decode(buf, src) after its lazy initialisation
decodeBufAll(t, bufCap, src) ==
    IF Forced(t)
    THEN decodeBufDone(t,
           While(LAMBDA x : ~x.done /\ ~x.d.panic /\ x.srcPos < Len(src),
                 LAMBDA x : decodeStepAt(t, src, x),
                 [d |-> [cap |-> decodeCap(bufCap, src), out |-> <<>>, panic |-> FALSE],
                  srcPos |-> 0, done |-> FALSE], Len(src)))
    ELSE [t |-> t, out |-> <<>>, cap |-> 0, panic |-> FALSE]

\* returns the table, the bytes of buf[:bufPos], the capacity of the buffer
\* returned, and whether a write fell outside it
DecodeBuf(t, bufCap, src) == decodeBufAll(decodeInit(t), bufCap, src)

(***************************************************************************)
(* The state machine: a caller that trains a table (src/train.go: Train,   *)
(* one step per round of its loop), may train again on the same inputs,    *)
(* and uses the table.                                                     *)
(***************************************************************************)
VARIABLES
    inputs,         \* the collection handed to Train
    sample,         \* Train: sample
    tbl,            \* Train: table; afterwards the table Train returned
    frac,           \* Train: frac
    pc,             \* "idle", "round", "finalize", "trained", "panic", "table", "done"
    fracs,          \* the frac of every round the current call has run
    list,           \* buildCandidates: the list the last round inserted
    listRef,        \* the list of that round for the map in insertion order
    finalizeCalls,  \* the calls of finalize the current call has made
    calls,          \* the calls of Train started
    prevSer,        \* WriteTo of the table the previous call of Train returned
    last,           \* the last call made on a table, with its result
    first,          \* for every input Encode was called on: its first output
    nCalls,         \* the calls made on the table since Train returned
    tbl2,           \* the table the last ReadFrom filled
    loaded,         \* whether tbl2 was read from WriteTo(tbl) without error
    cnt,            \* the counters a caller of incSingle and incPair holds
    made,           \* for every counter of cnt: the increments made on it
    th,             \* for every thread sharing tbl: where its call stands
    ms              \* makeSample: rng, pos, sample and the windows picked

vars == <<inputs, sample, tbl, frac, pc, fracs, list, listRef, finalizeCalls, calls,
          prevSer, last, first, nCalls, tbl2, loaded, cnt, made, th, ms>>

\* bounds of the model
MinRepeat == 11
MaxRepeat == 15
MaxTrainCalls == 2
MaxCalls == 3
MaxCodecCalls == 1

\* the line u repeated k times
Rep(u, k) == [i \in 1..(k * Len(u)) |-> u[((i - 1) % Len(u)) + 1]]

\* a line holding every byte value once
AllBytes == [i \in 1..256 |-> i - 1]

Units == {<<0>>, <<0, 97>>, <<0, 0, 97>>}

\* the collections Train is called on
TrainInputs ==
    {<<>>, <<AllBytes>>, << <<>>, Rep(<<97>>, MaxRepeat) >>,
     << <<0, 0, 0, 0>>, <<0, 0, 0, 0, 0, 0>> >>,
     << <<0, 0, 97, 0, 0, 97, 0, 0, 97, 0, 0, 97>> >>}
    \cup {<<Rep(u, k)>> : u \in Units, k \in {0} \cup MinRepeat..MaxRepeat}

\* the collections the callers of Encode and Decode train on
CodecTrainInputs ==
    {<<>>, << <<0, 0, 0, 0>>, <<0, 0, 0, 0, 0, 0>> >>}
    \cup {<<Rep(u, k)>> : u \in Units, k \in {MinRepeat, MaxRepeat}}

\* the collections the callers of Encode(buf, input) and Decode(buf, src) train on
BufTrainInputs == {<<>>} \cup {<<Rep(u, MinRepeat)>> : u \in Units}

\* the inputs of Encode: empty, single bytes seen and unseen in training,
\* zeros, and more than one chunk
LongInput == Rep(<<97, 0>>, (fsstChunkSize + 1) \div 2)
EncodeInputs == {<<>>, <<0>>, <<97>>, <<5>>, <<97, 0, 97, 0>>, LongInput}
FewInputs == {<<0>>, <<97>>, <<97, 0, 97, 0>>}

\* the inputs of Decode that no Encode produced: codes below and above
\* nSymbols, escapes, and escapes with no literal
RawInputs ==
    {<<>>, <<255>>, <<0, 255>>, <<255, 255>>, <<255, 255, 255>>, <<1, 254, 255, 7, 255>>,
     <<254, 0, 255, 255, 3>>}

\* the capacities of the buffers handed to Encode and Decode
BufCaps == {NilBuf, 0, 3, 64}

\* the threads that share a table, and a thread that has made no call: the
\* call it makes, its argument, what it returned, what the call returns when
\* no other thread runs (ref), and the array its local buf refers to once
\* t.encBuf refers to another one (own)
Threads == {1, 2}
NoThread == [pc |-> "idle", op |-> "none", input |-> <<>>, out |-> <<>>, ref |-> <<>>, own |-> <<>>]
NoThreads == [i \in Threads |-> NoThread]

\* a call: its name, its argument, what it returned (out, err, n), the capacity
\* of the buffer it wrote to, whether it panicked or stopped at a truncated
\* escape (flag), and the bytes its result is to be compared with (ref)
NoCall == [op |-> "none", input |-> <<>>, out |-> <<>>, ref |-> <<>>,
           err |-> "nil", n |-> 0, cap |-> 0, flag |-> FALSE]

InitWith(collections) ==
    /\ inputs \in collections
    /\ sample = <<>>
    /\ tbl = newTable
    /\ frac = 0
    /\ pc = "idle"
    /\ fracs = <<>>
    /\ list = <<>>
    /\ listRef = <<>>
    /\ finalizeCalls = 0
    /\ calls = 0
    /\ prevSer = <<>>
    /\ last = NoCall
    /\ first = NoEntries
    /\ nCalls = 0
    /\ tbl2 = newTable
    /\ loaded = FALSE
    /\ cnt = newCounters
    /\ made = NoEntries
    /\ th = NoThreads
    /\ ms = sampleLocals(sampleStart)

Init == InitWith(TrainInputs)

\* Train, up to the head of its loop
startTrain ==
    /\ sample' = makeSample(inputs)
    /\ tbl' = newTable
    /\ frac' = 8
    /\ pc' = "round"
    /\ fracs' = <<>>
    /\ list' = <<>>
    /\ listRef' = <<>>
    /\ finalizeCalls' = 0
    /\ calls' = calls + 1
    /\ UNCHANGED <<ms, th, cnt, made, inputs, last, first, nCalls, tbl2, loaded>>

TrainBegin ==
    /\ pc = "idle"
    /\ startTrain
    /\ UNCHANGED prevSer

\* a second call of Train on the same inputs, the caller keeping the bytes
\* of the table the first call returned
TrainAgain ==
    /\ pc = "trained"
    /\ calls < MaxTrainCalls
    /\ prevSer' = WriteTo(tbl)
    /\ startTrain

\* frac += 60
nextFracWide(f) == f + 60

\* frac += 30
nextFrac(f) == f + 30

\* one round of the loop of Train
TrainRound ==
    /\ pc = "round"
    /\ \E order \in MapOrders :
         \E r \in {trainRound(tbl, sample, frac, order)} :
           IF r.panic
           THEN /\ pc' = "panic"
                /\ UNCHANGED <<tbl, frac, fracs, list, listRef>>
           ELSE /\ tbl' = r.t
                /\ list' = r.list
                /\ listRef' = r.ref
                /\ fracs' = Append(fracs, frac)
                /\ IF frac >= 128
                   THEN pc' = "finalize" /\ UNCHANGED frac
                   ELSE pc' = "round" /\ frac' = nextFrac(frac)
    /\ UNCHANGED <<ms, th, cnt, made, inputs, sample, finalizeCalls, calls, prevSer, last, first, nCalls,
                   tbl2, loaded>>

\* Train, from the end of its loop to its return
TrainFinalize ==
    /\ pc = "finalize"
    /\ tbl' = finalize(tbl)
    /\ finalizeCalls' = finalizeCalls + 1
    /\ pc' = "trained"
    /\ UNCHANGED <<ms, th, cnt, made, inputs, sample, frac, fracs, list, listRef, calls, prevSer, last, first,
                   nCalls, tbl2, loaded>>

\* what the calls on a table leave alone
trainingVars ==
    <<inputs, sample, frac, pc, fracs, list, listRef, finalizeCalls, calls, prevSer,
      cnt, made, th, ms>>

\* comp := tbl.Encode(x), at most limit calls being made on the table
EncodeCall(X, limit) ==
    /\ pc = "trained"
    /\ nCalls < limit
    /\ \E x \in X :
         \E r \in {Encode(tbl, x)} :
           /\ tbl' = r.t
           /\ last' = [NoCall EXCEPT !.op = "Encode", !.input = x, !.out = r.out]
           /\ first' = IF x \in DOMAIN first THEN first ELSE Put(first, x, r.out)
    /\ nCalls' = nCalls + 1
    /\ UNCHANGED <<trainingVars, tbl2, loaded>>

\* got := tbl.Decode(comp), comp being what the last call of Encode returned
DecodeCall ==
    /\ pc = "trained"
    /\ last.op = "Encode"
    /\ \E r \in {Decode(tbl, last.out)} :
         /\ tbl' = r.t
         /\ last' = [NoCall EXCEPT !.op = "Decode", !.input = last.input, !.ref = last.out,
                                   !.out = r.out, !.flag = r.truncated]
    /\ UNCHANGED <<trainingVars, first, nCalls, tbl2, loaded>>

\* the sequence s without its last element
Front(s) == SubSeq(s, 1, Len(s) - 1)

\* tbl.Decode(y) on bytes that need not come from Encode; ref is what
\* Decode returns for y without its last byte
DecodeRaw(Y) ==
    /\ pc = "trained"
    /\ nCalls < MaxCodecCalls
    /\ \E y \in Y :
         \E r \in {Decode(tbl, y)} :
           /\ tbl' = r.t
           /\ last' = [NoCall EXCEPT !.op = "DecodeRaw", !.input = y, !.out = r.out,
                                     !.flag = r.truncated,
                                     !.ref = Decode(r.t, Front(y)).out]
    /\ nCalls' = nCalls + 1
    /\ UNCHANGED <<trainingVars, first, tbl2, loaded>>

\* tbl.Encode(buf, x) of src/unnamed/part_000, buf nil or of some capacity;
\* ref is what tbl.Encode(nil, x) returns
EncodeBufCall(X) ==
    /\ pc = "trained"
    /\ nCalls < MaxCodecCalls
    /\ \E x \in X :
         \E ref \in {EncodeBuf(tbl, NilBuf, x).out} :
           \E bufCap \in BufCaps :
             \E r \in {EncodeBuf(tbl, bufCap, x)} :
               /\ tbl' = r.t
               /\ last' = [NoCall EXCEPT !.op = "EncodeBuf", !.input = x, !.out = r.out,
                                         !.cap = r.cap, !.flag = r.panic, !.n = bufCap,
                                         !.ref = ref]
    /\ nCalls' = nCalls + 1
    /\ UNCHANGED <<trainingVars, first, tbl2, loaded>>

\* tbl.Decode(buf, y) of src/unnamed/part_000, buf nil or of some capacity;
\* ref is what tbl.Decode(nil, y) returns
DecodeBufCall(Y) ==
    /\ pc = "trained"
    /\ nCalls < MaxCodecCalls
    /\ \E y \in Y :
         \E ref \in {DecodeBuf(tbl, NilBuf, y).out} :
           \E bufCap \in BufCaps :
             \E r \in {DecodeBuf(tbl, bufCap, y)} :
               /\ tbl' = r.t
               /\ last' = [NoCall EXCEPT !.op = "DecodeBuf", !.input = y, !.out = r.out,
                                         !.cap = r.cap, !.flag = r.panic, !.n = bufCap,
                                         !.ref = ref]
    /\ nCalls' = nCalls + 1
    /\ UNCHANGED <<trainingVars, first, tbl2, loaded>>

\* tbl.WriteTo(&buf); tbl2.ReadFrom(&buf)
SaveLoad ==
    /\ pc = "trained"
    /\ ~loaded
    /\ \E r \in {ReadFrom(WriteTo(tbl))} :
         /\ tbl2' = r.t
         /\ loaded' = (r.err = "nil")
         /\ last' = [NoCall EXCEPT !.op = "SaveLoad", !.input = WriteTo(tbl),
                                   !.err = r.err, !.n = r.n]
    /\ UNCHANGED <<trainingVars, tbl, first, nCalls>>

\* comp2 := tbl2.Encode(x), comp being what tbl.Encode(x) has just returned
EncodeLoaded ==
    /\ pc = "trained"
    /\ loaded
    /\ last.op = "Encode"
    /\ \E r \in {Encode(tbl2, last.input)} :
         /\ tbl2' = r.t
         /\ last' = [NoCall EXCEPT !.op = "EncodeLoaded", !.input = last.input,
                                   !.ref = last.out, !.out = r.out]
    /\ UNCHANGED <<trainingVars, tbl, first, nCalls, loaded>>

\* data with the byte at index i (from 1) incremented
Corrupt(data, i) == [data EXCEPT ![i] = (@ + 1) % 256]

\* the first k bytes of data
Prefix(data, k) == SubSeq(data, 1, k)

\* a header announcing one symbol and a histogram announcing two of two bytes
OverfullData == <<1, 1, 0, 0>> \o fsstVersionBytes \o <<0, 2, 0, 0, 0, 0, 0, 0>>

\* the bytes ReadFrom is called on: what WriteTo wrote, cut short anywhere,
\* with one byte of the version changed, and a histogram that announces more
\* symbols than the header
ReadInputs(ser) ==
    {Prefix(ser, k) : k \in 0..Len(ser)}
    \cup {Corrupt(ser, i) : i \in 5..8}
    \cup {Prefix(Corrupt(ser, 8), 8), OverfullData}

\* n, err := tbl2.ReadFrom(r), r a reader of data; err is "panic" when the
\* call panics
ReadFromCall ==
    /\ pc = "trained"
    /\ \E data \in ReadInputs(WriteTo(tbl)) :
         \E r \in {ReadFrom(data)} :
           /\ tbl2' = r.t
           /\ loaded' = FALSE
           /\ last' = [NoCall EXCEPT !.op = "ReadFrom", !.input = data,
                                     !.err = r.err, !.n = r.n]
    /\ UNCHANGED <<trainingVars, tbl, first, nCalls>>

Next == TrainBegin \/ TrainRound \/ TrainFinalize \/ TrainAgain

Spec == Init /\ [][Next]_vars

\* callers of Encode(input) and Decode(in) of src/table.go
InitCodec == InitWith(CodecTrainInputs)

NextCodec ==
    \/ TrainBegin \/ TrainRound \/ TrainFinalize
    \/ EncodeCall(EncodeInputs, MaxCodecCalls) \/ DecodeCall \/ DecodeRaw(RawInputs)

SpecCodec == InitCodec /\ [][NextCodec]_vars

\* callers of Encode(buf, input) and Decode(buf, src) of src/unnamed/part_000
NextBuf ==
    \/ TrainBegin \/ TrainRound \/ TrainFinalize
    \/ EncodeBufCall(EncodeInputs) \/ DecodeBufCall(RawInputs)

InitBuf == InitWith(BufTrainInputs)

SpecBuf == InitBuf /\ [][NextBuf]_vars

\* callers that reuse a table for several inputs and save and load it
NextReuse ==
    \/ TrainBegin \/ TrainRound \/ TrainFinalize
    \/ EncodeCall(FewInputs, MaxCalls) \/ SaveLoad \/ EncodeLoaded

SpecReuse == InitCodec /\ [][NextReuse]_vars

\* callers of ReadFrom
NextRead == TrainBegin \/ TrainRound \/ TrainFinalize \/ ReadFromCall

SpecRead == InitCodec /\ [][NextRead]_vars

(***************************************************************************)
(* Callers inside the package that build a table by hand, as the tests of  *)
(* src/table_test.go do: newTable, addSymbol, findLongestSymbol, finalize, *)
(* and the fast lookup of compressCount on a line.                         *)
(***************************************************************************)
\* the calls of addSymbol a caller makes on one table
MaxAdds == 3

\* the table after addSymbol of the single bytes 0 .. k-1
addByte(t, b) == addSymbol(t, newSymbolFromBytes(<<b>>)).t
filled(k) == For(addByte, newTable, 0, k - 1)

\* the tables the callers start from: new, and holding 252 and 254 symbols
StartTables == {filled(k) : k \in {0, 252, 254}}

\* the symbols handed to addSymbol: one byte, two bytes with and without a
\* longer symbol on the same two bytes, three and eight bytes on the same
\* three bytes, three bytes in the hash slot of another prefix, and three
\* bytes ending in zeros
SymbolPool ==
    {<<120>>, <<97, 98>>, <<97, 99>>, <<97, 98, 99>>,
     <<97, 98, 99, 100, 101, 102, 103, 104>>, <<120, 102, 122>>, <<97, 0, 0>>}

\* the windows handed to findLongestSymbol
Windows ==
    {<<97>>, <<122>>, <<97, 98>>, <<97, 99, 99>>, <<97, 98, 99>>, <<97, 98, 99, 100>>,
     <<97, 98, 99, 100, 101, 102, 103, 104>>, <<120, 102, 122, 97>>, <<97, 0>>,
     <<97, 0, 0, 0>>, <<97, 98, 120, 102, 122>>}

\* the lines the fast lookup runs on, from the positions with 8 bytes left
FastLines ==
    {<<97, 98, 99, 100, 101, 102, 103, 104, 97, 98>>,
     <<97, 99, 97, 98, 99, 120, 102, 122, 97, 0>>,
     <<120, 102, 122, 97, 0, 0, 0, 0, 0, 0>>}

InitTableWith(tables) ==
    /\ inputs = <<>>
    /\ sample = <<>>
    /\ tbl \in tables
    /\ frac = 0
    /\ pc = "table"
    /\ fracs = <<>>
    /\ list = <<>>
    /\ listRef = <<>>
    /\ finalizeCalls = 0
    /\ calls = 0
    /\ prevSer = <<>>
    /\ last = NoCall
    /\ first = NoEntries
    /\ nCalls = 0
    /\ tbl2 = newTable
    /\ loaded = FALSE
    /\ cnt = newCounters
    /\ made = NoEntries
    /\ th = NoThreads
    /\ ms = sampleLocals(sampleStart)

\* ok := tbl.addSymbol(newSymbolFromBytes(in)); tbl2 keeps the table as it
\* was before the call, last.n its nSymbols
AddSymbolCall ==
    /\ pc = "table"
    /\ nCalls < MaxAdds
    /\ \E in \in SymbolPool :
         \E r \in {addSymbol(tbl, newSymbolFromBytes(in))} :
           /\ tbl' = r.t
           /\ tbl2' = tbl
           /\ last' = [NoCall EXCEPT !.op = "addSymbol", !.input = in, !.flag = r.ok,
                                     !.n = tbl.nSymbols]
    /\ nCalls' = nCalls + 1
    /\ UNCHANGED <<trainingVars, first, loaded>>

\* code := tbl.findLongestSymbol(newSymbolFromBytes(w)), the last call this
\* caller makes; last.flag tells whether the hash table entry was the one taken
FindLongestCall ==
    /\ pc = "table"
    /\ \E w \in Windows :
         last' = [NoCall EXCEPT
                    !.op = "findLongestSymbol", !.input = w,
                    !.n = findLongestSymbol(tbl, newSymbolFromBytes(w)),
                    !.flag = hashHit(newSymbolFromBytes(w),
                                     hashTabAt(tbl, symHash(newSymbolFromBytes(w))
                                                      % fsstHashTabSize))]
    /\ pc' = "done"
    /\ UNCHANGED <<ms, th, cnt, made, inputs, sample, frac, fracs, list, listRef, finalizeCalls, calls,
                   prevSer, tbl, first, nCalls, tbl2, loaded>>

\* next, adv = findNextSymbolFast(tbl, line, pos) where pos < end-7, the last
\* call this caller makes; last.ref holds what findLongestSymbol returns on
\* the window at pos
FastCall ==
    /\ pc = "table"
    /\ \E line \in FastLines :
         \E pos \in 0..(Len(line) - 8) :
           \E r \in {findNextSymbolFast(tbl, line, pos)} :
             last' = [NoCall EXCEPT
                        !.op = "findNextSymbolFast",
                        !.input = SubSeq(line, pos + 1, pos + 8),
                        !.n = r.code, !.cap = r.advance,
                        !.ref = <<findLongestSymbol(tbl, windowAt(line, pos))>>]
    /\ pc' = "done"
    /\ UNCHANGED <<ms, th, cnt, made, inputs, sample, frac, fracs, list, listRef, finalizeCalls, calls,
                   prevSer, tbl, first, nCalls, tbl2, loaded>>

\* tbl.finalize(), on a table within the precondition nSymbols <= 255; tbl2
\* keeps the table as it was before the call
FinalizeCall ==
    /\ pc = "table"
    /\ tbl.nSymbols <= fsstMaxSymbols
    /\ tbl' = finalize(tbl)
    /\ tbl2' = tbl
    /\ pc' = "trained"
    /\ last' = [NoCall EXCEPT !.op = "finalize"]
    /\ UNCHANGED <<ms, th, cnt, made, inputs, sample, frac, fracs, list, listRef, finalizeCalls, calls,
                   prevSer, first, nCalls, loaded>>

\* callers that fill a table, finalize it, write it and read it back
InitTable == InitTableWith(StartTables)

NextTable == AddSymbolCall \/ FinalizeCall \/ SaveLoad

SpecTable == InitTable /\ [][NextTable]_vars

\* callers that look symbols up in a table under construction
InitLookup == InitTableWith({newTable})

NextLookup == AddSymbolCall \/ FindLongestCall \/ FastCall

SpecLookup == InitLookup /\ [][NextLookup]_vars

\* tbl.clearSymbols(); tbl2 keeps the table as it was before the call
ClearCall ==
    /\ pc = "table"
    /\ nCalls < MaxAdds
    /\ tbl' = clearSymbols(tbl)
    /\ tbl2' = tbl
    /\ last' = [NoCall EXCEPT !.op = "clearSymbols", !.n = tbl.nSymbols]
    /\ nCalls' = nCalls + 1
    /\ UNCHANGED <<trainingVars, first, loaded>>

\* callers that add symbols to a table and clear it, as the rounds of
\* training do
NextClear == AddSymbolCall \/ ClearCall

SpecClear == InitTable /\ [][NextClear]_vars

(***************************************************************************)
(* Callers of the counters (src/unnamed/part_003): one single counter and  *)
(* two pair counters that share a byte of pairHigh, started at counts near *)
(* the wrap of the low byte and near the ends of the 12-bit and the 16-bit *)
(* range, and incremented one call at a time.                              *)
(***************************************************************************)
MaxIncs == 3

\* the ranges the header of the file gives the counts
singleCountMax == 65535
pairCountMax == 4095

SingleCodes == {5}
PairCodes == {<<3, 4>>, <<3, 5>>}

\* the counts the callers start from
SingleStarts == {0, 254, 65279, 65533}
PairStarts == {0, 254, 3839, 4093}

\* k calls of incSingle(code) and of incPair(code1, code2)
incSingleTimes(c, code, k) == For(LAMBDA x, i : incSingle(x, code), c, 1, k)
incPairTimes(c, code1, code2, k) == For(LAMBDA x, i : incPair(x, code1, code2), c, 1, k)

\* the count nextSingle and nextPair return when the scan is started at the
\* code asked for: that code's count if the scan stops there, else 0
singleCount(c, code) ==
    IF nextSingle(c, code).code = code THEN nextSingle(c, code).count ELSE 0

pairCount(c, code1, code2) ==
    IF nextPair(c, code1, code2).code = code2 THEN nextPair(c, code1, code2).count ELSE 0

InitCount ==
    /\ inputs = <<>>
    /\ sample = <<>>
    /\ tbl = newTable
    /\ frac = 0
    /\ pc = "count"
    /\ fracs = <<>>
    /\ list = <<>>
    /\ listRef = <<>>
    /\ finalizeCalls = 0
    /\ calls = 0
    /\ prevSer = <<>>
    /\ last = NoCall
    /\ first = NoEntries
    /\ nCalls = 0
    /\ tbl2 = newTable
    /\ loaded = FALSE
    /\ th = NoThreads
    /\ ms = sampleLocals(sampleStart)
    /\ \E ks \in SingleStarts, kp \in PairStarts :
         /\ cnt = incPairTimes(incSingleTimes(newCounters, 5, ks), 3, 4, kp)
         /\ made = (<<5>> :> ks) @@ (<<3, 4>> :> kp) @@ (<<3, 5>> :> 0)

\* cnt.incSingle(code); last.n holds the count nextSingle reads afterwards
IncSingleCall ==
    /\ pc = "count"
    /\ nCalls < MaxIncs
    /\ \E code \in SingleCodes :
         /\ cnt' = incSingle(cnt, code)
         /\ made' = Put(made, <<code>>, made[<<code>>] + 1)
         /\ last' = [NoCall EXCEPT !.op = "incSingle", !.input = <<code>>,
                                   !.n = singleCount(incSingle(cnt, code), code)]
    /\ nCalls' = nCalls + 1
    /\ UNCHANGED <<ms, th, inputs, sample, tbl, frac, pc, fracs, list, listRef, finalizeCalls,
                   calls, prevSer, first, tbl2, loaded>>

\* cnt.incPair(code1, code2); last.n holds the count nextPair reads afterwards
IncPairCall ==
    /\ pc = "count"
    /\ nCalls < MaxIncs
    /\ \E p \in PairCodes :
         /\ cnt' = incPair(cnt, p[1], p[2])
         /\ made' = Put(made, p, made[p] + 1)
         /\ last' = [NoCall EXCEPT !.op = "incPair", !.input = p,
                                   !.n = pairCount(incPair(cnt, p[1], p[2]), p[1], p[2])]
    /\ nCalls' = nCalls + 1
    /\ UNCHANGED <<ms, th, inputs, sample, tbl, frac, pc, fracs, list, listRef, finalizeCalls,
                   calls, prevSer, first, tbl2, loaded>>

NextCount == IncSingleCall \/ IncPairCall

SpecCount == InitCount /\ [][NextCount]_vars

(***************************************************************************)
(* Callers that fill a table, finalize it and encode a line with it: the   *)
(* tables of two-byte symbols make chooseVariant return noSuffixOpt, the   *)
(* ones started with 30 single bytes avoidBranch, the others neither.      *)
(***************************************************************************)
VariantTables == {filled(k) : k \in {0, 30}}

\* lines over the bytes of the symbols of the pool, of at most one chunk
VariantLines ==
    {<<97, 98, 99, 100, 97, 99, 120, 97>>,
     <<97, 98, 97, 0, 0, 120, 102, 122, 5, 97>>,
     <<97, 99, 97, 98, 99, 100, 101, 102, 103, 104, 97, 98>>}

InitVariant == InitTableWith(VariantTables)

NextVariant == AddSymbolCall \/ FinalizeCall \/ EncodeCall(VariantLines, MaxAdds + 1)

SpecVariant == InitVariant /\ [][NextVariant]_vars

(***************************************************************************)
(* Two threads that call Encode and Decode on the table Train returned.    *)
(* Nothing in Encode or Decode synchronises them, so the steps of the two  *)
(* calls interleave: the check of t.encBuf, the lazy initialisation, the   *)
(* copy of the chunk into the chunk buffer, and encodeChunk.               *)
(***************************************************************************)
ShareTrainInputs == {<<Rep(<<0, 97>>, MinRepeat)>>}

\* the inputs of the threads, of one chunk each
ShareInputs == {<<97>>, <<0, 97>>, <<5, 5, 5>>}
ShareCodes == {<<255, 97>>, <<0, 255>>}

\* what a step of a thread leaves alone besides tbl and th
callerVars ==
    <<inputs, sample, frac, pc, fracs, list, listRef, finalizeCalls, calls, prevSer,
      cnt, made, last, first, nCalls, tbl2, loaded, ms>>

InitShare == InitWith(ShareTrainInputs)

\* the thread i enters Encode(x) and reads t.encBuf == nil
EncodeStart(i) ==
    /\ pc = "trained"
    /\ th[i].pc = "idle"
    /\ \E x \in ShareInputs :
         th' = [th EXCEPT ![i] = [NoThread EXCEPT
                  !.pc = IF tbl.encBuf = <<>> THEN "init" ELSE "copy",
                  !.op = "Encode",
                  !.input = x,
                  !.ref = Encode(tbl, x).out]]
    /\ UNCHANGED <<callerVars, tbl>>

\* the lazy initialisation of Encode: rebuildIndices, chooseVariant and
\* t.encBuf = make(...); a thread whose buf is the array t.encBuf referred
\* to keeps that array
EncodeInit(i) ==
    /\ th[i].pc = "init"
    /\ tbl' = encodeReady(IF ~tbl.accelReady THEN rebuildIndices(tbl) ELSE tbl)
    /\ th' = [j \in Threads |->
                IF j = i THEN [th[j] EXCEPT !.pc = "copy"]
                ELSE IF th[j].pc = "chunk" /\ th[j].own = <<>>
                THEN [th[j] EXCEPT !.own = tbl.encBuf]
                ELSE th[j]]
    /\ UNCHANGED callerVars

\* buf := t.encBuf; copy(buf[:chunk], input); buf[chunk] = 0
EncodeCopy(i) ==
    /\ th[i].pc = "copy"
    /\ tbl' = [tbl EXCEPT !.encBuf = loadChunk(@, th[i].input, 0, Len(th[i].input))]
    /\ th' = [th EXCEPT ![i].pc = "chunk"]
    /\ UNCHANGED callerVars

\* out = t.encodeChunk(out, buf, chunk, byteLim); return out
EncodeRun(i) ==
    /\ th[i].pc = "chunk"
    /\ th' = [th EXCEPT
                ![i].pc = "done",
                ![i].out = encodeChunk(tbl, <<>>,
                                       IF th[i].own # <<>> THEN th[i].own ELSE tbl.encBuf,
                                       Len(th[i].input), byteLimOf(tbl))]
    /\ UNCHANGED <<callerVars, tbl>>

\* the thread i calls Decode(y)
DecodeShared(i) ==
    /\ pc = "trained"
    /\ th[i].pc = "idle"
    /\ \E y \in ShareCodes :
         \E r \in {Decode(tbl, y)} :
           /\ tbl' = r.t
           /\ th' = [th EXCEPT ![i] = [NoThread EXCEPT !.pc = "done", !.op = "Decode",
                                                       !.input = y, !.out = r.out,
                                                       !.ref = r.out]]
    /\ UNCHANGED callerVars

NextShare ==
    \/ TrainBegin \/ TrainRound \/ TrainFinalize
    \/ \E i \in Threads :
         EncodeStart(i) \/ EncodeInit(i) \/ EncodeCopy(i) \/ EncodeRun(i) \/ DecodeShared(i)

SpecShare == InitShare /\ [][NextShare]_vars

(***************************************************************************)
(* makeSample, one step per iteration of its loop.                         *)
(***************************************************************************)
\* a line of n bytes that differ from window to window
SampleLine(n, m) == SubSeq([i \in 1..n |-> (i * m) % 251], 1, n)

\* k lines of n bytes
SampleLines(k, n, m) == SubSeq([i \in 1..k |-> SampleLine(n, m + i)], 1, k)

\* collections below fsstSampleTarget, at it, and above it and above
\* fsstSampleMaxSz, with empty items, items shorter than a window and items
\* that end inside a window
SampleInputs ==
    {<<>>, << <<1, 2, 3>>, <<>> >>,
     SampleLines(3, 4096, 7) \o <<SampleLine(4095, 7)>>,
     SampleLines(4, 4096, 7),
     << <<>> >> \o SampleLines(8, 2500, 7) \o << <<>> >>,
     <<SampleLine(700, 7)>> \o SampleLines(10, 1600, 7) \o << <<>>, SampleLine(513, 7)>>,
     SampleLines(3, 4096, 7) \o <<SampleLine(4095, 7), <<5>> >>,
     SampleLines(10, 4000, 3)}

InitSample == InitWith(SampleInputs)

\* makeSample up to its loop
SampleBegin ==
    /\ pc = "idle"
    /\ IF sampleTotal(inputs) < fsstSampleTarget
       THEN sample' = inputs /\ pc' = "sampled"
       ELSE sample' = <<>> /\ pc' = "sampling"
    /\ ms' = sampleLocals(sampleStart)
    /\ UNCHANGED <<tbl, frac, fracs, list, listRef, finalizeCalls, calls, prevSer, last,
                   first, nCalls, tbl2, loaded, cnt, made, th, inputs>>

\* one iteration of the loop of makeSample; after the last one, return sample
SampleStep ==
    /\ pc = "sampling"
    /\ \E s \in {sampleStep(inputs, ms @@ [sample |-> sample])} :
         /\ ms' = sampleLocals(s)
         /\ sample' = s.sample
         /\ pc' = IF sampleRunning(s) THEN "sampling" ELSE "sampled"
    /\ UNCHANGED <<tbl, frac, fracs, list, listRef, finalizeCalls, calls, prevSer, last,
                   first, nCalls, tbl2, loaded, cnt, made, th, inputs>>

NextSample == SampleBegin \/ SampleStep

SpecSample == InitSample /\ [][NextSample]_vars

\* the loop runs on: nothing suspends a call of makeSample
SpecSampleFair == SpecSample /\ WF_vars(NextSample)

(***************************************************************************)
(* The properties                                                          *)
(***************************************************************************)
\* C1: what Decode returns for the bytes Encode returned for x is x, for
\* every trained table and every input x.
RoundTrip == last.op = "Decode" => last.out = last.input

\* x with every byte emitted as an escape: 255, then the literal
Escaped(x) == [i \in 1..(2 * Len(x)) |-> IF i % 2 = 1 THEN fsstEscapeCode ELSE x[i \div 2]]

\* C2: Encode(buf, x) returns at most 2 * len(x) bytes, as many only when
\* every byte of x is emitted as an escape, and writes inside the buffer of
\* at least 2 * len(x) + 7 bytes it works on.
SizeBound ==
    last.op = "EncodeBuf" =>
        /\ ~last.flag
        /\ last.cap >= 2 * Len(last.input) + fsstOutputPadding
        /\ Len(last.out) <= 2 * Len(last.input)
        /\ Len(last.out) = 2 * Len(last.input) => last.out = Escaped(last.input)

\* an input that is escaped byte by byte into a buffer Encode had to replace
SizeBoundReached ==
    /\ last.op = "EncodeBuf"
    /\ last.n = 0
    /\ Len(last.input) > 0
    /\ Len(last.out) = 2 * Len(last.input)

\* C3: Decode(buf, y) returns without an access out of range for every byte
\* sequence y, whatever codes below 255 it holds.
DecodeTotal == last.op = "DecodeBuf" => ~last.flag

\* a code above nSymbols, and output written to a buffer that had to grow
DecodeTotalReached ==
    /\ last.op = "DecodeBuf"
    /\ \E i \in 1..Len(last.input) :
         last.input[i] < fsstEscapeCode /\ last.input[i] >= tbl.nSymbols
    /\ Len(last.out) > last.n
    /\ last.n # NilBuf

\* whether the code at index i (from 1) of y, or a later one, is an escape
\* code that is the last byte of y
RECURSIVE EscapeAtEnd(_, _)
EscapeAtEnd(y, i) ==
    IF i > Len(y) THEN FALSE
    ELSE IF y[i] # fsstEscapeCode THEN EscapeAtEnd(y, i + 1)
    ELSE IF i = Len(y) THEN TRUE
    ELSE EscapeAtEnd(y, i + 2)

\* C4: when the input of Decode ends in an escape code with no literal after
\* it, Decode stops there and returns what it returns for the input without
\* that byte.
TruncatedEscape ==
    (last.op = "DecodeRaw" /\ EscapeAtEnd(last.input, 1)) =>
        last.flag /\ last.out = last.ref

\* an input with codes, an escaped literal and a lone escape code at its end
TruncatedEscapeReached ==
    /\ last.op = "DecodeRaw"
    /\ Len(last.input) > 1
    /\ EscapeAtEnd(last.input, 1)
    /\ Len(last.out) > 0

\* C5: the second call of Train on a collection returns a table that WriteTo
\* writes as the same bytes as the table of the first call.
TrainDeterministic == (pc = "trained" /\ calls > 1) => WriteTo(tbl) = prevSer

\* C6: Encode on the table read back from what WriteTo wrote returns the
\* bytes Encode on the table itself returned for the same input.
RebuildPreserved == last.op = "EncodeLoaded" => last.out = last.ref

\* C7: Encode returns for an input what it returned the first time it was
\* called on that input, whatever it was called on in between.
EncodeIsFunction ==
    (last.op = "Encode" /\ last.input \in DOMAIN first) => last.out = first[last.input]

\* C8: Train never panics: no round of its loop leaves a line or indexes out
\* of range.
TrainCompletes == pc # "panic"

\* Train has returned for a collection with an empty item
TrainCompletesReached ==
    /\ pc = "trained"
    /\ \E i \in 1..Len(inputs) : inputs[i] = <<>>
    /\ \E i \in 1..Len(inputs) : inputs[i] # <<>>

\* the frac of the rounds of Train
RoundFracs == <<8, 38, 68, 98, 128>>

\* C9: Train runs the rounds frac = 8, 38, 68, 98, 128 in this order, then
\* finalize once, and the table never holds more than 255 symbols.
FiveRounds ==
    /\ Len(fracs) <= Len(RoundFracs)
    /\ fracs = SubSeq(RoundFracs, 1, Len(fracs))
    /\ pc \in {"finalize", "trained"} => fracs = RoundFracs
    /\ finalizeCalls = IF pc = "trained" THEN 1 ELSE 0
    /\ tbl.nSymbols <= fsstMaxSymbols

\* Train has returned a table that is full
FiveRoundsReached ==
    /\ pc = "trained"
    /\ fracs = RoundFracs
    /\ tbl.nSymbols = fsstMaxSymbols

\* the symbol bytes that the header and the histogram of data announce
AnnouncedBytes(data) ==
    For(LAMBDA sum, i : sum + lensFrom([l \in 1..8 |-> data[8 + l]], 2)[i + 1],
        0, 0, Min(data[2], Len(lensFrom([l \in 1..8 |-> data[8 + l]], 2))) - 1)

\* whether data ends before the header, the histogram or the announced
\* symbol bytes are complete
EndsEarly(data) ==
    \/ Len(data) < 8
    \/ /\ SubSeq(data, 5, 8) = fsstVersionBytes
       /\ \/ Len(data) < 16
          \/ Len(data) < 16 + AnnouncedBytes(data)

\* C10: ReadFrom returns ErrBadVersion exactly when the version of the
\* header is not 20190218, and the error of the reader when the input ends
\* early.
ReadErrors ==
    last.op = "ReadFrom" =>
        /\ (last.err = "ErrBadVersion") =
               (Len(last.input) >= 8 /\ SubSeq(last.input, 5, 8) # fsstVersionBytes)
        /\ EndsEarly(last.input) => last.err \in {"EOF", "ErrUnexpectedEOF"}

\* C15: the list buildCandidates selects and inserts is the same whatever
\* the order the candidates map is iterated in.
SelectionOrderFree == list = listRef

\* whether candidate a comes before candidate b: the higher gain, on equal
\* gains the smaller val
GainBefore(a, b) ==
    \/ a.gain > b.gain
    \/ a.gain = b.gain /\ ValLess(a.symbol.val, b.symbol.val)

\* C16: buildCandidates inserts the selected candidates by descending gain,
\* on equal gains the smaller val first.
InsertedByGain ==
    \A i, j \in 1..Len(list) : i < j => ~GainBefore(list[j], list[i])

\* C13: ReadFrom, and UnmarshalBinary which calls it on a reader of the
\* bytes, returns an error or a table on every byte sequence; it never panics.
ReadNeverPanics == last.op = "ReadFrom" => last.err # "panic"

\* C17: addSymbol fails and adds nothing on a table that holds 255 learned
\* symbols: nSymbols never exceeds 255 and no learned symbol has code 511.
AddStopsAtMax ==
    /\ tbl.nSymbols <= fsstMaxSymbols
    /\ last.op = "addSymbol" /\ last.n >= fsstMaxSymbols => ~last.flag /\ tbl = tbl2
    /\ \A i \in fsstCodeBase..(fsstCodeBase + tbl.nSymbols - 1) : i # fsstCodeMask

\* a table with the serialization and the read-back of SaveLoad: the header,
\* the histogram, the symbol bytes at the offsets offs, and the symbols read
WrittenAs(t, ser, offs, read) ==
    LET n == t.nSymbols
        len(i) == symLength(t.symbols[i])
        rank(l) == IF l = 1 THEN 9 ELSE l
    IN  /\ Len(ser) = 16 + offs[n + 1]
        /\ SubSeq(ser, 1, 4) = <<1, n, t.suffixLim, 0>>
        /\ ser[5] + 256 * ser[6] + 65536 * ser[7] + 16777216 * ser[8] = 20190218
        /\ \A l \in 1..8 : ser[8 + l] = Cardinality({i \in 0..(n - 1) : len(i) = l})
        /\ \A i \in 0..(n - 1) :
             /\ \A k \in 1..len(i) : ser[16 + offs[i + 1] + k] = t.symbols[i].val[k]
             /\ i + 1 < n => rank(len(i)) <= rank(len(i + 1))
             /\ symCode(read.symbols[i]) = i
             /\ symLength(read.symbols[i]) = len(i)
             /\ read.symbols[i].val = t.symbols[i].val
        /\ read.nSymbols = n

BufferFree ==
    last.op \in {"EncodeBuf", "DecodeBuf"} =>
        /\ last.out = last.ref
        /\ ~last.flag
        /\ Len(last.out) <= last.cap

\* Decode into a buffer of capacity 3 that had to grow with bytes in it
BufferFreeReached ==
    /\ last.op = "DecodeBuf"
    /\ last.n = 3
    /\ last.cap > 3
    /\ \E i \in 1..3 : last.out[i] # 0

\* the bytes of the symbol are the first bytes of the window w
IsPrefix(sym, w) ==
    /\ symLength(sym) <= Len(w)
    /\ \A k \in 1..symLength(sym) : sym.val[k] = w[k]

\* the codes of the learned symbols of t that are a prefix of w
Matches(t, w) ==
    {i \in fsstCodeBase..(fsstCodeBase + t.nSymbols - 1) : IsPrefix(t.symbols[i], w)}

SlotTaken(t, in) ==
    IclLess(hashTabAt(t, symHash(newSymbolFromBytes(in)) % fsstHashTabSize), FreeSlot)

\* C18: addSymbol on a symbol of 3 bytes or more whose hash slot is occupied
\* returns false and leaves nSymbols, symbols, lenHisto, byteCodes,
\* shortCodes and hashTab as they were.
HashRejectKeeps ==
    last.op = "addSymbol" /\ Len(last.input) >= 3 /\ SlotTaken(tbl2, last.input) =>
        /\ ~last.flag
        /\ tbl.nSymbols = tbl2.nSymbols
        /\ tbl.symbols = tbl2.symbols
        /\ tbl.lenHisto = tbl2.lenHisto
        /\ tbl.byteCodes = tbl2.byteCodes
        /\ tbl.shortCodes = tbl2.shortCodes /\ tbl.shortBase = tbl2.shortBase
        /\ tbl.hashTab = tbl2.hashTab

\* a symbol rejected for a slot that holds a symbol of other bytes
HashRejectReached ==
    /\ last.op = "addSymbol"
    /\ last.input = <<120, 102, 122>>
    /\ SlotTaken(tbl2, last.input)
    /\ ~last.flag
    /\ tbl2.nSymbols = 1
    /\ symFirst(tbl2.symbols[fsstCodeBase]) = 97

\* C19: findLongestSymbol returns the code of the longest learned symbol
\* that is a prefix of the window, the pseudo-code of the first byte when
\* there is none; a hit in the hash table is a match of 3 bytes or more.
LongestPrefix ==
    last.op = "findLongestSymbol" =>
        /\ Matches(tbl, last.input) = {} => last.n = last.input[1]
        /\ Matches(tbl, last.input) # {} =>
             /\ last.n \in Matches(tbl, last.input)
             /\ \A m \in Matches(tbl, last.input) :
                  symLength(tbl.symbols[m]) <= symLength(tbl.symbols[last.n])
        /\ last.flag =>
             last.n \in Matches(tbl, last.input) /\ symLength(tbl.symbols[last.n]) >= 3

\* a hash hit on a window longer than the symbol, a shorter learned symbol
\* matching too
LongestPrefixReached ==
    /\ last.op = "findLongestSymbol"
    /\ last.flag
    /\ symLength(tbl.symbols[last.n]) < Len(last.input)
    /\ Cardinality(Matches(tbl, last.input)) > 1

\* C20: with 8 bytes left, findNextSymbolFast returns the code
\* findLongestSymbol returns on the 8-byte window, and as advance the length
\* of the symbol of that code.
FastAgrees ==
    last.op = "findNextSymbolFast" =>
        /\ last.n = last.ref[1]
        /\ last.cap = symLength(tbl.symbols[last.n])

\* the fast lookup returning a 2-byte symbol
FastAgreesReached ==
    /\ last.op = "findNextSymbolFast"
    /\ last.n >= fsstCodeBase
    /\ last.cap = 2



(***************************************************************************)
(* The counters.                                                           *)
(***************************************************************************)
\* the count a range of the header allows after k increments
capped(k, max) == IF k < max THEN k ELSE max

\* C21: after k increments of one single counter or of one pair counter the
\* compensated read returns k for every k up to the cap (65535 for a single
\* counter, 4095 for a pair counter), and the cap after more increments
CountsCompensated ==
    pc = "count" =>
      /\ \A code \in SingleCodes :
           singleCount(cnt, code) = capped(made[<<code>>], singleCountMax)
      /\ \A p \in PairCodes :
           pairCount(cnt, p[1], p[2]) = capped(made[p], pairCountMax)

\* C29: incPair(code1, code2) changes the count of the pair (code1, code2)
\* only: the count nextPair reads for every other pair, the pair sharing the
\* byte of pairHigh among them, and every single count stay as they were
IncPairFrame ==
    [][last'.op = "incPair" =>
         /\ \A p \in PairCodes \ {last'.input} :
              pairCount(cnt', p[1], p[2]) = pairCount(cnt, p[1], p[2])
         /\ \A code \in SingleCodes \cup {last'.input[1], last'.input[2]} :
              singleCount(cnt', code) = singleCount(cnt, code)]_vars

(***************************************************************************)
(* The variants of encodeChunk.                                            *)
(***************************************************************************)
\* the iteration of encodeChunk at position of the chunk buffer of t, run
\* with the flags given in place of the flags of t
encodeStepUnder(t, noSuffixOpt, avoidBranch, position) ==
    encodeStep([t EXCEPT !.noSuffixOpt = noSuffixOpt, !.avoidBranch = avoidBranch],
               t.encBuf, byteLimOf(t), position)

\* whether the iteration at position takes the 2-byte fast path under noSuffixOpt
fastPathAt(t, position) ==
    shortCodeAt(t, t.encBuf[position + 1] + 256 * t.encBuf[position + 2]) % 256
      < t.suffixLim % 256

\* C22: what an iteration of encodeChunk emits, and its advance, are the same
\* under avoidBranch, under noSuffixOpt and under neither, at every position
\* of the chunk; the two flags are never both set
VariantFree ==
    last.op = "Encode" =>
      /\ ~(tbl.noSuffixOpt /\ tbl.avoidBranch)
      /\ \A position \in 0..(Len(last.input) - 1) :
           /\ encodeStepUnder(tbl, FALSE, TRUE, position)
                = encodeStepUnder(tbl, FALSE, FALSE, position)
           /\ encodeStepUnder(tbl, TRUE, FALSE, position)
                = encodeStepUnder(tbl, FALSE, FALSE, position)

\* a call of Encode under noSuffixOpt whose chunk has a position where the
\* fast path is taken
VariantFreeReached ==
    /\ last.op = "Encode"
    /\ tbl.noSuffixOpt
    /\ tbl.hashTab # NoEntries
    /\ \E position \in 0..(Len(last.input) - 1) : fastPathAt(tbl, position)

(***************************************************************************)
(* The indices rebuildIndices leaves.                                      *)
(***************************************************************************)
\* the indices of shortCodes looked at: the entries that differ from the
\* mirror of byteCodes, and every first byte under the second byte 98
ShortProbes(t) == (DOMAIN t.shortCodes) \cup {256 * 98 + b : b \in 0..255}

\* entry holds the code of a learned symbol of the length given whose first
\* bytes are key, packed with that length
LearnedEntry(t, entry, length, key) ==
    /\ entry \div 4096 = length
    /\ entry % 4096 < t.nSymbols
    /\ symLength(t.symbols[entry % 4096]) = length
    /\ (IF length = 1 THEN symFirst(t.symbols[entry % 4096])
        ELSE symFirst2(t.symbols[entry % 4096])) = key

\* the first two bytes of the learned symbols of 2 bytes
PairKeys(t) ==
    {symFirst2(t.symbols[c]) : c \in {x \in 0..(t.nSymbols - 1) : symLength(t.symbols[x]) = 2}}

\* every entry of byteCodes and of shortCodes is a learned entry or the
\* fallback, of length 1 and of the code fallbackCode gives for the first byte
IndexEntries(t, fallbackCode(_)) ==
    /\ \A b \in 0..255 :
         \/ LearnedEntry(t, t.byteCodes[b], 1, b)
         \/ t.byteCodes[b] = packCodeLength(fallbackCode(b), 1)
    /\ \A keys \in {PairKeys(t)} :
         \A k \in ShortProbes(t) :
           /\ \/ LearnedEntry(t, shortCodeAt(t, k), 2, k)
              \/ LearnedEntry(t, shortCodeAt(t, k), 1, k % 256)
              \/ shortCodeAt(t, k) = packCodeLength(fallbackCode(k % 256), 1)
           /\ k \notin keys => shortCodeAt(t, k) = t.byteCodes[k % 256]

\* C23 as stated: after rebuildIndices every entry of byteCodes and of
\* shortCodes is the code of a learned symbol packed with its true length
\* (1 or 2), or a fallback of length 1 whose code equals the input byte; the
\* entries of shortCodes with no learned 2-byte symbol equal byteCodes of
\* their first byte
RebuildFallsBackToByte ==
    (pc = "trained" /\ tbl.accelReady) => IndexEntries(tbl, LAMBDA b : b)

\* C23 amended: the same, the fallback being of length 1 and of the code
\* fsstCodeMask (511) for every byte
RebuildFallsBackToMask ==
    (pc = "trained" /\ tbl.accelReady) => IndexEntries(tbl, LAMBDA b : fsstCodeMask)

\* the indices were rebuilt for a table with a learned single byte, a learned
\* 2-byte symbol and a byte that is no symbol
RebuildReached ==
    /\ pc = "trained"
    /\ tbl.accelReady
    /\ LearnedEntry(tbl, tbl.byteCodes[5], 1, 5)
    /\ LearnedEntry(tbl, shortCodeAt(tbl, 97 + 256 * 98), 2, 97 + 256 * 98)
    /\ tbl.byteCodes[97] = packCodeLength(fsstCodeMask, 1)
    /\ shortCodeAt(tbl, 97) = packCodeLength(fsstCodeMask, 1)

(***************************************************************************)
(* Threads that share a table.                                             *)
(***************************************************************************)
\* C24: two threads that call Encode or Decode on the same trained table do
\* not race on the lazily built caches (indices, flags, chunk buffer, decoder
\* arrays): under every interleaving a call returns the bytes it returns
\* when it runs alone
SharedAlone ==
    \A i \in Threads : th[i].pc = "done" => th[i].out = th[i].ref

(***************************************************************************)
(* clearSymbols.                                                           *)
(***************************************************************************)
\* C25: after calls of addSymbol, taken or rejected, and then clearSymbols,
\* nSymbols is 0, lenHisto is zero everywhere, and byteCodes, shortCodes and
\* hashTab are those of a new table
ClearRestores ==
    last.op = "clearSymbols" =>
      /\ tbl.nSymbols = 0
      /\ \A l \in 1..8 : tbl.lenHisto[l] = 0
      /\ tbl.byteCodes = newTable.byteCodes
      /\ DOMAIN tbl.shortCodes = {}
      /\ tbl.shortBase = newTable.shortBase
      /\ DOMAIN tbl.hashTab = {}

\* clearSymbols ran on a table holding symbols of 1 byte, of 2 bytes and of
\* 3 bytes or more, after a call of addSymbol
ClearRestoresReached ==
    /\ last.op = "clearSymbols"
    /\ nCalls = MaxAdds
    /\ tbl2.lenHisto[1] > 0
    /\ tbl2.lenHisto[2] > 0
    /\ DOMAIN tbl2.hashTab # {}

(***************************************************************************)
(* The table during training.                                              *)
(***************************************************************************)
\* the learned symbol of code c has that code, and the entry of its key (of
\* byteCodes, of shortCodes or the hash slot) holds the code c
LearnedIndexed(t, c) ==
    /\ symCode(t.symbols[c]) = c
    /\ CASE symLength(t.symbols[c]) = 1 ->
              t.byteCodes[symFirst(t.symbols[c])] = packCodeLength(c, 1)
         [] symLength(t.symbols[c]) = 2 ->
              shortCodeAt(t, symFirst2(t.symbols[c])) = packCodeLength(c, 2)
         [] OTHER ->
              /\ (symHash(t.symbols[c]) % fsstHashTabSize) \in DOMAIN t.hashTab
              /\ symCode(t.hashTab[symHash(t.symbols[c]) % fsstHashTabSize]) = c

\* the occupied hash slot h holds a learned symbol of 3 bytes or more, its
\* value masked to its length, in the slot of its hash
SlotLearned(t, h) ==
    /\ symCode(t.hashTab[h]) >= fsstCodeBase
    /\ symCode(t.hashTab[h]) < fsstCodeBase + t.nSymbols
    /\ symLength(t.hashTab[h]) >= 3
    /\ symLength(t.symbols[symCode(t.hashTab[h])]) = symLength(t.hashTab[h])
    /\ t.hashTab[h].val = MaskVal(t.symbols[symCode(t.hashTab[h])].val,
                                  t.hashTab[h].ignoredBits)
    /\ symHash(t.hashTab[h]) % fsstHashTabSize = h

\* the invariant of a table under construction; the learned symbols of 3
\* bytes or more are as many as the occupied slots, each in its own slot
TableIndexed(t) ==
    /\ \A c \in fsstCodeBase..(fsstCodeBase + t.nSymbols - 1) : LearnedIndexed(t, c)
    /\ \A h \in DOMAIN t.hashTab : SlotLearned(t, h)
    /\ Cardinality({c \in fsstCodeBase..(fsstCodeBase + t.nSymbols - 1) :
                      symLength(t.symbols[c]) >= 3})
         = Cardinality(DOMAIN t.hashTab)
    /\ t.lenHisto[1] + t.lenHisto[2] + t.lenHisto[3] + t.lenHisto[4]
         + t.lenHisto[5] + t.lenHisto[6] + t.lenHisto[7] + t.lenHisto[8] = t.nSymbols

\* the loop of buildCandidates over the list, TableIndexed being looked at
\* after clearSymbols and after every call of addSymbol
IndexedThroughout(t, l) ==
    While(LAMBDA s : s.i < Len(l) /\ s.t.nSymbols < fsstMaxSymbols,
          LAMBDA s : [t |-> addSymbol(s.t, l[s.i + 1].symbol).t, i |-> s.i + 1,
                      ok |-> s.ok /\ TableIndexed(addSymbol(s.t, l[s.i + 1].symbol).t)],
          [t |-> clearSymbols(t), i |-> 0, ok |-> TableIndexed(clearSymbols(t))],
          Len(l)).ok

\* C30: during training, after clearSymbols and after every addSymbol, every
\* learned code c in [256, 256 + nSymbols) has symbols[c].code = c and the
\* entry of its key (byteCodes, shortCodes or hash slot) maps to c; every
\* occupied hash slot holds one learned symbol of 3 bytes or more, masked to
\* its length; no two learned symbols share a slot; lenHisto sums to nSymbols
TrainingIndexed ==
    pc \in {"round", "finalize"} => TableIndexed(tbl) /\ IndexedThroughout(tbl, list)

\* a round has built a table with symbols of 1 byte, of 2 bytes and of 3
\* bytes or more
TrainingIndexedReached ==
    /\ pc = "round"
    /\ tbl.lenHisto[1] > 0
    /\ tbl.lenHisto[2] > 0
    /\ DOMAIN tbl.hashTab # {}
    /\ Len(list) > tbl.nSymbols

(***************************************************************************)
(* makeSample.                                                             *)
(***************************************************************************)
\* the window i of the sample is at most fsstSampleLine bytes of a nonempty
\* input, from an offset that is a multiple of fsstSampleLine
WindowPicked(i) ==
    /\ ms.picks[i][1] \in 0..(Len(inputs) - 1)
    /\ Len(inputs[ms.picks[i][1] + 1]) > 0
    /\ ms.picks[i][2] % fsstSampleLine = 0
    /\ ms.picks[i][3] \in 1..fsstSampleLine
    /\ ms.picks[i][2] + ms.picks[i][3] <= Len(inputs[ms.picks[i][1] + 1])
    /\ sample[i] = SubSeq(inputs[ms.picks[i][1] + 1], ms.picks[i][2] + 1,
                          ms.picks[i][2] + ms.picks[i][3])

\* the sample under construction: as many bytes as pos counts,
\* fsstSampleMaxSz at most, every piece a window
SampleWindows ==
    /\ sampleTotal(sample) = ms.pos
    /\ ms.pos <= fsstSampleMaxSz
    /\ Len(ms.picks) = Len(sample)
    /\ \A i \in 1..Len(sample) : WindowPicked(i)

\* what makeSample returns: the inputs when they hold less than
\* fsstSampleTarget bytes, else fsstSampleTarget bytes or more, the sample
\* the loop run as a whole returns
SampleReturned ==
    IF sampleTotal(inputs) < fsstSampleTarget THEN sample = inputs
    ELSE /\ sampleTotal(sample) >= fsstSampleTarget
         /\ sample = makeSample(inputs)

\* C26: makeSample terminates on every collection; below 16384 bytes in all
\* it returns the inputs unchanged; else the sample holds at least 16384 and
\* at most 32768 bytes, every piece is a window of at most 512 bytes that
\* starts at a multiple of 512 inside a nonempty input, and the sample is the
\* one every call on these inputs returns
SampleTerminates ==
    /\ [](pc \in {"sampling", "sampled"} /\ sampleTotal(inputs) >= fsstSampleTarget
            => SampleWindows)
    /\ [](pc = "sampled" => SampleReturned)
    /\ <>(pc = "sampled")

\* makeSample returned a sample of windows, one of them shorter than
\* fsstSampleLine, picked among inputs one of which is empty
SampleTerminatesReached ==
    /\ pc = "sampled"
    /\ sampleTotal(inputs) >= fsstSampleTarget
    /\ \E i \in 1..Len(inputs) : Len(inputs[i]) = 0
    /\ \E i \in 1..Len(sample) : Len(sample[i]) < fsstSampleLine

(***************************************************************************)
(* The end of a chunk.                                                     *)
(***************************************************************************)
\* C28: when encodeChunk finishes, its position is the length of the chunk:
\* the symbols and the escaped literals it emitted cover the input and no
\* byte after it; the zero terminator and the padding are in no match
ChunkConsumed ==
    (last.op = "Encode" /\ Len(last.input) \in 1..fsstChunkSize) =>
        encodeChunkLoop(tbl, <<>>, tbl.encBuf, Len(last.input), byteLimOf(tbl)).position
          = Len(last.input)

(***************************************************************************)
(* The parse of the trainer and the parse of the encoder.                  *)
(***************************************************************************)
\* the bytes of the symbol of a code of t
pieceOf(t, code) == SubSeq(ValBytes(t.symbols[code].val, symLength(t.symbols[code])), 1,
                           symLength(t.symbols[code]))

\* the inner loop of compressCount after nx was found at s.pos
countedNext(t, s, nx) ==
    [pos |-> s.pos + nx.advance, pieces |-> Append(s.pieces, pieceOf(t, nx.code))]

\* the first symbol of compressCount on a line
countedFirst(t, cur) == [pos |-> symLength(t.symbols[cur]), pieces |-> <<pieceOf(t, cur)>>]

\* the symbols compressCount steps through on a line, as their bytes
countedPieces(t, line) ==
    While(LAMBDA s : s.pos < Len(line),
          LAMBDA s : countedNext(t, s, nextSymbol(t, line, s.pos)),
          countedFirst(t, findLongestSymbol(t, windowAt(line, 0))),
          Len(line)).pieces

\* the symbols and the escaped bytes of the codes out, as their bytes
emittedPieces(t, out) ==
    While(LAMBDA s : s.i < Len(out),
          LAMBDA s : IF out[s.i + 1] = fsstEscapeCode
                     THEN [i |-> s.i + 2, pieces |-> Append(s.pieces, <<out[s.i + 2]>>)]
                     ELSE [i |-> s.i + 1,
                           pieces |-> Append(s.pieces, pieceOf(t, out[s.i + 1]))],
          [i |-> 0, pieces |-> <<>>], Len(out)).pieces

\* the position of piece k: the bytes of the pieces before it
RECURSIVE pieceStart(_, _)
pieceStart(pieces, k) ==
    IF k = 1 THEN 0 ELSE pieceStart(pieces, k - 1) + Len(pieces[k - 1])

\* every piece is the symbol findLongestSymbol finds in t for the bytes of
\* the line that remain where the piece starts
PiecesLongest(t, line, pieces) ==
    \A k \in 1..Len(pieces) :
       /\ pieceStart(pieces, k) < Len(line)
       /\ pieces[k] = pieceOf(t, findLongestSymbol(t, windowAt(line, pieceStart(pieces, k))))

\* the table and the line of the pieces agree as C27 states
ParsedAlike(t, line, pieces) ==
    /\ pieces = countedPieces(t, line)
    /\ PiecesLongest(t, line, pieces)

\* C27: for the table of the last round and a line of one chunk at most, the
\* symbols compressCount steps through are, bytes and lengths, the symbols
\* and escaped bytes Encode emits for the line after finalize, and at every
\* position the encoder picks the symbol findLongestSymbol picks for the
\* bytes that remain
ParseAgrees ==
    (pc = "trained" /\ last.op = "Encode" /\ Len(last.input) \in 1..fsstChunkSize) =>
        ParsedAlike(buildFrom(newTable, list), last.input, emittedPieces(tbl, last.out))
====
